---- MODULE Spec2Model ----
(***************************************************************************)
(* Rememorium: the review-cycle ledger (database.js, modules/fragmentos.js) *)
(* as a state machine, and the prioritisation, the aggregates (utils.js)   *)
(* and the heatmap (components/heatmap.js), each applied to inputs drawn   *)
(* from small sets.                                                        *)
(*                                                                         *)
(* Strings are sequences of one-character strings, so that normalisation   *)
(* and parsing are computed character by character.  An instant is a       *)
(* number of ticks, DIA ticks to the day; an ISO timestamp and a           *)
(* YYYY-MM-DD date are both the tick they denote.  A Firestore document    *)
(* and an in-memory fragment are records whose DOMAIN is the set of fields *)
(* they have.  objetos is the heap of fragment objects; todosOsFragmentos  *)
(* and fragmentosData are the two arrays, of references into it.  An async *)
(* handler is a slot of emVoo; each await is one step: the storage         *)
(* operation takes effect and the handler runs on to its next await.       *)
(* Hashtags take no part in any operation modelled here and are left out   *)
(* of the records.                                                         *)
(***************************************************************************)
EXTENDS Integers, Sequences, FiniteSets, TLC

VARIABLES uid, agora, store, objetos, todosOsFragmentos, fragmentosData,
          emVoo, nEnvios, retorno, foco, contagem, item, hoje, aura,
          entrada, saida,
          pomodoroTempo, pomodoroIntervalo, pomodoroAtivo, intervalos,
          proximoIntervalo, timerDisplay

vars == <<uid, agora, store, objetos, todosOsFragmentos, fragmentosData,
          emVoo, nEnvios, retorno, foco, contagem, item, hoje, aura,
          entrada, saida,
          pomodoroTempo, pomodoroIntervalo, pomodoroAtivo, intervalos,
          proximoIntervalo, timerDisplay>>

\* the Pomodoro timer: its three variables, the intervals the page has
\* running, the handle the next setInterval returns, and the text shown
varsPomodoro == <<pomodoroTempo, pomodoroIntervalo, pomodoroAtivo, intervalos,
                  proximoIntervalo, timerDisplay>>

varsFragmentos == <<uid, agora, store, objetos, todosOsFragmentos,
                    fragmentosData, emVoo, nEnvios, retorno, foco, contagem>>

varsApp == <<varsFragmentos, varsPomodoro>>

memoria == <<objetos, todosOsFragmentos, fragmentosData>>

varsAura == <<item, hoje, aura>>

\* the argument and the result of a function of utils.js or heatmap.js
\* applied on its own
varsFuncoes == <<varsAura, entrada, saida, varsPomodoro>>

(* ------------------------------ bounds -------------------------------- *)

\* form submissions accepted in one run
MaxEnvios == 3
\* handlers that may be awaiting storage at the same time
MaxEmVoo == 2
\* weeks the clock may advance
MaxSemanas == 1
\* largest day count fed to calcularAura on its own
MaxDias == 21
\* times the Pomodoro timer may be started
MaxIntervalos == 3

\* ticks in a day (the model's 1000 * 60 * 60 * 24)
DIA == 2
\* an empty or missing date string
DataVazia == -1

(* ------------------------------ strings ------------------------------- *)

Baixa == <<"B", "a", "i", "x", "a">>
Alta == <<"A", "l", "t", "a">>
Media == <<"M", "é", "d", "i", "a">>

\* U+0300..U+036F, the combining marks NFD splits off
Combinantes == {"´"}

NFDChar(c) ==
  CASE c = "Á" -> <<"A", "´">>
    [] c = "á" -> <<"a", "´">>
    [] c = "É" -> <<"E", "´">>
    [] c = "é" -> <<"e", "´">>
    [] OTHER -> <<c>>

RECURSIVE NFD(_)
NFD(s) == IF s = <<>> THEN <<>> ELSE NFDChar(Head(s)) \o NFD(Tail(s))

SemCombinantes(s) == SelectSeq(s, LAMBDA c : c \notin Combinantes)

RECURSIVE TrimInicio(_)
TrimInicio(s) ==
  IF s # <<>> /\ Head(s) = " " THEN TrimInicio(Tail(s)) ELSE s

RECURSIVE TrimFim(_)
TrimFim(s) ==
  IF s # <<>> /\ s[Len(s)] = " " THEN TrimFim(SubSeq(s, 1, Len(s) - 1)) ELSE s

trim(s) == TrimFim(TrimInicio(s))

LowerChar(c) ==
  CASE c = "A" -> "a"
    [] c = "B" -> "b"
    [] c = "D" -> "d"
    [] c = "M" -> "m"
    [] c = "Á" -> "á"
    [] c = "É" -> "é"
    [] OTHER -> c

toLowerCase(s) == [i \in 1..Len(s) |-> LowerChar(s[i])]

normalizarTexto(texto) == toLowerCase(trim(SemCombinantes(NFD(texto))))

(* ------------------------- numbers and results ------------------------ *)

\* a JavaScript value that is a number, or a string
Num(n) == [t |-> "num", n |-> n, s |-> <<>>]
Str(s) == [t |-> "str", n |-> 0, s |-> s]

\* the value of a field no object has
Indefinido == [t |-> "undefined", n |-> 0, s |-> <<>>]

\* the number that is not a number
NaN == [t |-> "nan", n |-> 0, s |-> <<>>]

Digitos == {"0", "1", "2", "3", "4", "5", "6", "7", "8", "9"}

DigitVal(c) ==
  CASE c = "0" -> 0 [] c = "1" -> 1 [] c = "2" -> 2 [] c = "3" -> 3
    [] c = "4" -> 4 [] c = "5" -> 5 [] c = "6" -> 6 [] c = "7" -> 7
    [] c = "8" -> 8 [] c = "9" -> 9

RECURSIVE parseInt(_)
parseInt(ds) ==
  IF ds = <<>> THEN 0
  ELSE 10 * parseInt(SubSeq(ds, 1, Len(ds) - 1)) + DigitVal(ds[Len(ds)])

\* the end of the run of digits that starts at i
RECURSIVE FimDigitos(_, _)
FimDigitos(s, i) ==
  IF i < Len(s) /\ s[i + 1] \in Digitos THEN FimDigitos(s, i + 1) ELSE i

\* /(\d+)[\/,](\d+)/ matches with its first group starting at i
CasaEm(s, i) ==
  /\ s[i] \in Digitos
  /\ LET j == FimDigitos(s, i)
     IN  /\ j + 2 <= Len(s)
         /\ s[j + 1] \in {"/", ","}
         /\ s[j + 2] \in Digitos

\* the groups of the leftmost match of /(\d+)[\/,](\d+)/, <<>> without one
MatchFracao(s) ==
  LET inicios == {i \in 1..Len(s) : CasaEm(s, i)}
  IN  IF inicios = {} THEN <<>>
      ELSE LET i == CHOOSE x \in inicios : \A y \in inicios : x <= y
               j == FimDigitos(s, i)
           IN  <<SubSeq(s, i, j), SubSeq(s, j + 2, FimDigitos(s, j + 2))>>

\* Number(valor) for a number, undefined, or a string of digits, blanks,
\* separators and letters: blanks around are dropped, the empty string is 0,
\* a run of digits is its value, anything else is not a number
Number(valor) ==
  CASE valor.t = "num" -> valor
    [] valor.t = "str" ->
         LET s == trim(valor.s)
         IN  IF \A i \in 1..Len(s) : s[i] \in Digitos THEN Num(parseInt(s))
             ELSE NaN
    [] OTHER -> NaN

\* the pairs acertos, total of at most two digits for which the double
\* (acertos / total) * 100 falls just below a half that the exact quotient
\* reaches: 23 / 40 is 0.575 rounded down, and times 100 gives
\* 57.49999999999999
ArredondaMeioAbaixo ==
  {<<23, 40>>, <<41, 40>>, <<51, 40>>, <<87, 40>>, <<97, 40>>, <<46, 80>>,
   <<82, 80>>}

\* Math.round((acertos / total) * 100) in double arithmetic, for acertos and
\* total of at most two digits
roundPorcentagem(acertos, total) ==
  IF <<acertos, total>> \in ArredondaMeioAbaixo
  THEN ((200 * acertos + total) \div (2 * total)) - 1
  ELSE (200 * acertos + total) \div (2 * total)

converterParaPorcentagem(valor) ==
  IF valor.t # "str" THEN Number(valor)
  ELSE LET m == MatchFracao(valor.s)
       IN  IF m # <<>>
           THEN LET acertos == parseInt(m[1])
                    total == parseInt(m[2])
                IN  IF total = 0 THEN Num(0)
                    ELSE Num(roundPorcentagem(acertos, total))
           ELSE Number(valor)

pctNumber(v) == IF v < 0 THEN 0 ELSE IF v > 100 THEN 100 ELSE v

formatarDataRaw(dataRaw) ==
  IF dataRaw = DataVazia THEN DataVazia ELSE (dataRaw \div DIA) * DIA

(* ------------------------------ records ------------------------------- *)

Campo(r, f, padrao) == IF f \in DOMAIN r THEN r[f] ELSE padrao

\* {...a, ...b} with a's fields winning: an object spread, or updateDoc's merge
Merge(a, b) ==
  [f \in (DOMAIN a) \cup (DOMAIN b) |-> IF f \in DOMAIN a THEN a[f] ELSE b[f]]

\* a faulty splice: the last element goes, whatever the index
RemoveAtUltimo(s, i) == SubSeq(s, 1, Len(s) - 1)

\* s.splice(i - 1, 1)
RemoveAt(s, i) == [k \in 1..(Len(s) - 1) |-> IF k < i THEN s[k] ELSE s[k + 1]]

(* -------------------------------- aura -------------------------------- *)

\* the pairs for which (ecoInicial * 0.7) + (ecoFinal * 0.3), exactly 50 or 80,
\* comes out one unit in the last place lower in double precision
\* (53 * 0.7 + 43 * 0.3 is 49.99999999999999)
ArredondaAbaixo == {<<53, 43>>, <<56, 36>>, <<68, 8>>, <<71, 1>>, <<92, 52>>}

\* desempenho < limite, for whole ecoInicial and ecoFinal in 0..100
desempenhoMenor(ecoInicial, ecoFinal, limite) ==
  \/ 7 * ecoInicial + 3 * ecoFinal < 10 * limite
  \/ /\ 7 * ecoInicial + 3 * ecoFinal = 10 * limite
     /\ <<ecoInicial, ecoFinal>> \in ArredondaAbaixo

pontosDesempenho(f) ==
  LET ecoInicial == pctNumber(Campo(f, "ecoInicial", 0))
      ecoFinal == pctNumber(Campo(f, "ecoFinal", 0))
  IN  (IF desempenhoMenor(ecoInicial, ecoFinal, 50) THEN 3
       ELSE IF desempenhoMenor(ecoInicial, ecoFinal, 80) THEN 2
       ELSE 1)
      + (IF ecoFinal < ecoInicial THEN 1 ELSE 0)

\* a faulty recency term: a record without a date counts as the oldest
pontosTempoSemData(f, now) ==
  LET diffDias == (now - Campo(f, "ultimaRevisao", DataVazia)) \div DIA
  IN  IF Campo(f, "ultimaRevisao", DataVazia) = DataVazia \/ diffDias >= 14 THEN 3
      ELSE IF diffDias >= 7 THEN 2
      ELSE 1

\* a faulty recency term: the newest revision counts the most
pontosTempoInvertido(f, now) ==
  LET ultima == Campo(f, "ultimaRevisao", DataVazia)
  IN  IF ultima = DataVazia THEN 1
      ELSE LET diffDias == (now - ultima) \div DIA
           IN  IF diffDias >= 14 THEN 1
               ELSE IF diffDias >= 7 THEN 2
               ELSE 3

\* a missing or empty ultimaRevisao is an invalid Date: diffDias is NaN and
\* both comparisons are false
pontosTempo(f, now) ==
  LET ultima == Campo(f, "ultimaRevisao", DataVazia)
  IN  IF ultima = DataVazia THEN 1
      ELSE LET diffDias == (now - ultima) \div DIA
           IN  IF diffDias >= 14 THEN 3
               ELSE IF diffDias >= 7 THEN 2
               ELSE 1

pontosConfianca(f) ==
  LET confianca == toLowerCase(Campo(f, "confianca", <<>>))
  IN  IF confianca = <<"b", "a", "i", "x", "o">> THEN 2
      ELSE IF confianca = <<"m", "é", "d", "i", "o">> THEN 1
      ELSE 0

classificar(pontos) ==
  IF pontos >= 7 THEN "urgente"
  ELSE IF pontos >= 4 THEN "instavel"
  ELSE "consolidada"

calcularAura(f, now) ==
  classificar(pontosDesempenho(f) + pontosTempo(f, now) + pontosConfianca(f))

(* ---------------------------- prioritisation -------------------------- *)

\* the positions of S in increasing order
RECURSIVE EmOrdem(_)
EmOrdem(S) ==
  IF S = {} THEN <<>>
  ELSE LET m == CHOOSE x \in S : \A y \in S : x <= y
       IN  <<m>> \o EmOrdem(S \ {m})

\* a faulty slice: the whole array, whatever the limit
PrefixoInteiro(s, n) == s

\* s.slice(0, n)
Prefixo(s, n) == SubSeq(s, 1, IF n < Len(s) THEN n ELSE Len(s))

\* new Date(a.ultimaRevisao) - new Date(b.ultimaRevisao) > 0; with an invalid
\* date the difference is NaN, which sort takes for 0
DepoisDe(a, b) ==
  LET da == Campo(a, "ultimaRevisao", DataVazia)
      db == Campo(b, "ultimaRevisao", DataVazia)
  IN  da # DataVazia /\ db # DataVazia /\ da > db

\* position x put into the sorted positions s, behind the records it does
\* not precede
RECURSIVE Insere(_, _, _)
Insere(lista, s, x) ==
  IF s # <<>> /\ DepoisDe(lista[s[Len(s)]], lista[x])
  THEN Append(Insere(lista, SubSeq(s, 1, Len(s) - 1), x), s[Len(s)])
  ELSE Append(s, x)

\* Array.prototype.sort on the positions ps of lista, a stable sort
RECURSIVE OrdenaPorData(_, _)
OrdenaPorData(lista, ps) ==
  IF ps = <<>> THEN <<>>
  ELSE Insere(lista, OrdenaPorData(lista, SubSeq(ps, 1, Len(ps) - 1)), ps[Len(ps)])

ComAura(lista, tier) ==
  EmOrdem({i \in 1..Len(lista) : Campo(lista[i], "aura", "") = tier})

\* the positions in lista of the records selected, in the order selected
selecionarFragmentosUrgentesOuRecentes(lista, limite) ==
  LET urgentes == ComAura(lista, "urgente")
  IN  IF Len(urgentes) >= limite THEN Prefixo(urgentes, limite)
      ELSE LET instaveis == ComAura(lista, "instavel")
               restantes == urgentes \o Prefixo(instaveis, limite - Len(urgentes))
           IN  IF Len(restantes) < limite
               THEN LET dentro == {restantes[k] : k \in 1..Len(restantes)}
                        outros == OrdenaPorData(lista,
                                    EmOrdem((1..Len(lista)) \ dentro))
                    IN  restantes \o Prefixo(outros, limite - Len(restantes))
               ELSE restantes

\* the limit inicializarDashboard passes
LimiteFoco == 5

(* ------------------------------- storage ------------------------------ *)

Nulo == ""
Usuario == "u1"

Put(st, d, doc) == [x \in (DOMAIN st) \cup {d} |-> IF x = d THEN doc ELSE st[x]]

\* the key obterFragmentos gives a document
ChaveDe(doc) == Campo(doc, "temaSlug", normalizarTexto(Campo(doc, "tema", <<>>)))

ComChave(st, k) == {d \in DOMAIN st : ChaveDe(st[d]) = k}

\* String(Date.now()) of the n-th submission: no two alike, none a document id
IdLocal(n) == 0 - n

\* the id addDoc gives the document of the submission whose local id is id:
\* no two alike, none that of the legacy document
IdDoc(id) == 1 - id

Livre == [pc |-> "livre"]

Ocupados == {p \in DOMAIN emVoo : emVoo[p].pc # "livre"}

PrimeiroLivre == CHOOSE p \in DOMAIN emVoo : 
                   /\ emVoo[p].pc = "livre"
                   /\ \A q \in DOMAIN emVoo : emVoo[q].pc = "livre" => p <= q

\* the snapshot salvarFragmentoNoFirestore pushes for the document it found
Snapshot(dadosAntigos, now) ==
  [data |-> IF Campo(dadosAntigos, "ultimaRevisao", DataVazia) # DataVazia
            THEN dadosAntigos.ultimaRevisao ELSE now,
   ecoInicial |-> Num(Campo(dadosAntigos, "ecoInicial", 0)),
   ecoFinal |-> Num(Campo(dadosAntigos, "ecoFinal", 0)),
   confianca |-> Campo(dadosAntigos, "confianca", <<>>)]

\* a faulty update: the snapshot replaces the history instead of joining it
CargaUpdateSubstitui(novo, d, dadosAntigos, now) ==
  Merge([id |-> d, ownerUid |-> novo.ownerUid,
         temaSlug |-> normalizarTexto(novo.tema),
         historico |-> <<Snapshot(dadosAntigos, now)>>,
         ciclos |-> 1,
         ultimaRevisao |-> now], novo)

\* a faulty update: the cycle count is taken before the push
CargaUpdateCiclosAntes(novo, d, dadosAntigos, now) ==
  Merge([id |-> d, ownerUid |-> novo.ownerUid,
         temaSlug |-> normalizarTexto(novo.tema),
         historico |-> Append(Campo(dadosAntigos, "historico", <<>>),
                              Snapshot(dadosAntigos, now)),
         ciclos |-> Len(Campo(dadosAntigos, "historico", <<>>)),
         ultimaRevisao |-> now], novo)

\* what updateDoc is given for the document found
CargaUpdate(novo, d, dadosAntigos, now) ==
  LET historicoAnterior ==
        Append(Campo(dadosAntigos, "historico", <<>>), Snapshot(dadosAntigos, now))
  IN  Merge([id |-> d,
             ownerUid |-> novo.ownerUid,
             temaSlug |-> normalizarTexto(novo.tema),
             historico |-> historicoAnterior,
             ciclos |-> Len(historicoAnterior),
             ultimaRevisao |-> now], novo)

\* what addDoc is given
\* a faulty creation: the tier is computed before the document is written
CargaAddComAura(novo, now) ==
  Merge([ownerUid |-> novo.ownerUid, temaSlug |-> normalizarTexto(novo.tema),
         historico |-> <<>>, ciclos |-> 0, ultimaRevisao |-> now,
         aura |-> calcularAura(novo, now)], novo)

CargaAdd(novo, now) ==
  Merge([ownerUid |-> novo.ownerUid,
         temaSlug |-> normalizarTexto(novo.tema),
         historico |-> <<>>,
         ciclos |-> 0,
         ultimaRevisao |-> now], novo)

\* obterFragmentos: the documents in id order, each {id, temaSlug, ...data}
obterFragmentos(st) ==
  LET ids == EmOrdem(DOMAIN st)
  IN  [i \in 1..Len(ids) |->
         Merge(st[ids[i]],
               [id |-> ids[i],
                temaSlug |-> normalizarTexto(Campo(st[ids[i]], "tema", <<>>))])]

ComAuraCalculada(f, now) == Merge([aura |-> calcularAura(f, now)], f)

(* ------------------------------ aggregates ---------------------------- *)

\* a string field of a record as a JavaScript value
CampoStr(r, f) == IF f \in DOMAIN r THEN Str(r[f]) ELSE Indefinido

extrairTotalQuestoes(valor) ==
  IF valor.t # "str" THEN 0
  ELSE LET match == MatchFracao(valor.s)
       IN  IF match # <<>> THEN parseInt(match[2]) ELSE 0

\* the inner forEach of calcularTotalQuestoes, over the snapshots from k on
RECURSIVE TotalDoHistorico(_, _)
TotalDoHistorico(historico, k) ==
  IF k > Len(historico) THEN 0
  ELSE extrairTotalQuestoes(Campo(historico[k], "ecoInicial", Indefinido))
       + extrairTotalQuestoes(Campo(historico[k], "ecoFinal", Indefinido))
       + TotalDoHistorico(historico, k + 1)

\* a faulty total: the history is not read
TotalDoFragmentoSemHistorico(fragmento) ==
  extrairTotalQuestoes(CampoStr(fragmento, "ecoInicialRaw"))
  + extrairTotalQuestoes(CampoStr(fragmento, "ecoFinalRaw"))

\* what one record adds to the total of calcularTotalQuestoes
TotalDoFragmento(fragmento) ==
  extrairTotalQuestoes(CampoStr(fragmento, "ecoInicialRaw"))
  + extrairTotalQuestoes(CampoStr(fragmento, "ecoFinalRaw"))
  + TotalDoHistorico(Campo(fragmento, "historico", <<>>), 1)

RECURSIVE calcularTotalQuestoes(_)
calcularTotalQuestoes(data) ==
  IF data = <<>> THEN 0
  ELSE calcularTotalQuestoes(SubSeq(data, 1, Len(data) - 1))
       + TotalDoFragmento(data[Len(data)])

\* <<acertos, total>> that the string raw adds to the pool: nothing when it
\* is empty, missing or has no fraction
Fracao(raw) ==
  LET match == MatchFracao(raw)
  IN  IF match # <<>> THEN <<parseInt(match[1]), parseInt(match[2])>> ELSE <<0, 0>>

\* <<totalAcertos, totalQuestoes>> of the snapshots from k on, read from the
\* field ecoFinalRaw of each
RECURSIVE PoolDoHistorico(_, _)
PoolDoHistorico(historico, k) ==
  IF k > Len(historico) THEN <<0, 0>>
  ELSE LET a == Fracao(Campo(historico[k], "ecoFinalRaw", <<>>))
           b == PoolDoHistorico(historico, k + 1)
       IN  <<a[1] + b[1], a[2] + b[2]>>

\* <<totalAcertos, totalQuestoes>> after the forEach of calcularEcoDaPerformance
RECURSIVE PoolDeAcertos(_)
PoolDeAcertos(data) ==
  IF data = <<>> THEN <<0, 0>>
  ELSE LET fragmento == data[Len(data)]
           a == PoolDeAcertos(SubSeq(data, 1, Len(data) - 1))
           b == Fracao(Campo(fragmento, "ecoFinalRaw", <<>>))
           c == PoolDoHistorico(Campo(fragmento, "historico", <<>>), 1)
       IN  <<a[1] + b[1] + c[1], a[2] + b[2] + c[2]>>

\* Math.round((totalAcertos / totalQuestoes) * 100); exact for the totals
\* below 40 reached here
calcularEcoDaPerformance(data) ==
  LET pool == PoolDeAcertos(data)
      totalAcertos == pool[1]
      totalQuestoes == pool[2]
  IN  IF totalQuestoes = 0 THEN 0
      ELSE (200 * totalAcertos + totalQuestoes) \div (2 * totalQuestoes)

\* fragmentos.filter(f => f.revisaoTimestamp), sorted by revisaoTimestamp
\* descending, a stable sort: the first of it is the earliest in the list of
\* those with the greatest instant
\* (the em dash the panel shows for no topic, written here as a hyphen)
Travessao == <<"-">>

\* a faulty answer: the first record with an instant, whatever the instant
obterUltimaEvocacaoSemOrdem(fragmentos) ==
  LET comTimestamp == {i \in 1..Len(fragmentos) :
                         "revisaoTimestamp" \in DOMAIN fragmentos[i]}
  IN  IF comTimestamp = {} THEN Travessao
      ELSE LET primeiro == CHOOSE i \in comTimestamp :
                             \A j \in comTimestamp : i <= j
               tema == Campo(fragmentos[primeiro], "tema", <<>>)
           IN  IF tema # <<>> THEN tema ELSE Travessao

obterUltimaEvocacao(fragmentos) ==
  LET comTimestamp == {i \in 1..Len(fragmentos) :
                         "revisaoTimestamp" \in DOMAIN fragmentos[i]}
  IN  IF comTimestamp = {} THEN Travessao
      ELSE LET primeiro ==
                 CHOOSE i \in comTimestamp :
                   \A j \in comTimestamp :
                     \/ fragmentos[j].revisaoTimestamp < fragmentos[i].revisaoTimestamp
                     \/ /\ fragmentos[j].revisaoTimestamp = fragmentos[i].revisaoTimestamp
                        /\ i <= j
               tema == Campo(fragmentos[primeiro], "tema", <<>>)
           IN  IF tema # <<>> THEN tema ELSE Travessao

\* the end of the run of [\d.] that starts at i
RECURSIVE FimNumero(_, _)
FimNumero(s, i) ==
  IF i < Len(s) /\ s[i + 1] \in Digitos \cup {"."} THEN FimNumero(s, i + 1) ELSE i

\* the group of the leftmost match of /[\d.]+[\/,]([\d.]+)/, <<>> without one
MatchDenominador(s) ==
  LET inicios == {i \in 1..Len(s) :
                    /\ s[i] \in Digitos \cup {"."}
                    /\ FimNumero(s, i) + 2 <= Len(s)
                    /\ s[FimNumero(s, i) + 1] \in {"/", ","}
                    /\ s[FimNumero(s, i) + 2] \in Digitos \cup {"."}}
  IN  IF inicios = {} THEN <<>>
      ELSE LET i == CHOOSE x \in inicios : \A y \in inicios : x <= y
               j == FimNumero(s, i)
           IN  SubSeq(s, j + 2, FimNumero(s, j + 2))

\* parseFloat of a run of digits; the strings a record holds went through
\* the form's /^(\d+)([\/,])(\d+)$|^\d+$/ and have no point
parseFloat(ds) == parseInt(ds)

\* totalQuestoes of one record in contarQuestoesPorData
QuestoesDoFragmento(frag) ==
  LET inicial == MatchDenominador(Campo(frag, "ecoInicialRaw", <<>>))
      final == MatchDenominador(Campo(frag, "ecoFinalRaw", <<>>))
  IN  (IF inicial # <<>> THEN parseFloat(inicial) ELSE 0)
      + (IF final # <<>> THEN parseFloat(final) ELSE 0)

\* the key of a record in contarQuestoesPorData: the part of ultimaRevisao
\* before its 'T', or all of it
DataDe(frag) == (frag.ultimaRevisao \div DIA) * DIA

\* a faulty count: a date keeps only the last record's questions
contarQuestoesPorDataSemSoma(fragmentos) ==
  LET comData == {i \in 1..Len(fragmentos) :
                    Campo(fragmentos[i], "ultimaRevisao", DataVazia) # DataVazia}
  IN  [data \in {DataDe(fragmentos[i]) : i \in comData} |->
         LET ultimo == CHOOSE i \in comData :
                         /\ DataDe(fragmentos[i]) = data
                         /\ \A j \in comData : DataDe(fragmentos[j]) = data => j <= i
         IN  QuestoesDoFragmento(fragmentos[ultimo])]

\* the object contagem of the code, as the function from its keys to their
\* values
RECURSIVE contarQuestoesPorData(_)
contarQuestoesPorData(fragmentos) ==
  IF fragmentos = <<>> THEN <<>>
  ELSE LET mapa == contarQuestoesPorData(SubSeq(fragmentos, 1, Len(fragmentos) - 1))
           frag == fragmentos[Len(fragmentos)]
       IN  IF Campo(frag, "ultimaRevisao", DataVazia) # DataVazia
           THEN Put(mapa, DataDe(frag),
                    Campo(mapa, DataDe(frag), 0) + QuestoesDoFragmento(frag))
           ELSE mapa

(* -------------------------------- heatmap ----------------------------- *)

\* const dias = 60
DiasHeatmap == 60

\* a faulty classification: the second threshold taken at 20
classePorQuestoesVinte(n) ==
  IF n = 0 THEN "questoes-0"
  ELSE IF n <= 20 THEN "questoes-1"
  ELSE IF n <= 49 THEN "questoes-2"
  ELSE IF n <= 79 THEN "questoes-3"
  ELSE "questoes-4"

classePorQuestoes(n) ==
  IF n = 0 THEN "questoes-0"
  ELSE IF n <= 19 THEN "questoes-1"
  ELSE IF n <= 49 THEN "questoes-2"
  ELSE IF n <= 79 THEN "questoes-3"
  ELSE "questoes-4"

\* date.setHours(0, 0, 0, 0): the instant of the midnight that began the
\* local day of t, the local clock being fuso ticks ahead of UTC
setHoursZero(t, fuso) == ((t + fuso) \div DIA) * DIA - fuso

\* date.toISOString().split('T')[0]: the UTC day of the instant t
toISODate(t) == (t \div DIA) * DIA

\* the array celulas after reverse(), each cell with the class and the
\* today mark its div is given
gerarHeatmapSimples(fragmentos, now, fuso) ==
  LET hojeLocal == setHoursZero(now, fuso)
      inicio == hojeLocal - (DiasHeatmap - 1) * DIA
      mapa == contarQuestoesPorData(fragmentos)
      hojeISO == toISODate(setHoursZero(now, fuso))
      celula(i) ==
        LET dataISO == toISODate(inicio + i * DIA)
            qtd == Campo(mapa, dataISO, 0)
        IN  [dataISO |-> dataISO, qtd |-> qtd,
             classe |-> classePorQuestoes(qtd), ehHoje |-> dataISO = hojeISO]
  IN  [k \in 1..DiasHeatmap |-> celula(DiasHeatmap - k)]

(* ------------------------------- pomodoro ----------------------------- *)

\* 25 * 60 seconds
TempoInicial == 1500

\* pomodoroIntervalo before the first start
SemIntervalo == 0

DigitoChar(n) ==
  CASE n = 0 -> "0" [] n = 1 -> "1" [] n = 2 -> "2" [] n = 3 -> "3"
    [] n = 4 -> "4" [] n = 5 -> "5" [] n = 6 -> "6" [] n = 7 -> "7"
    [] n = 8 -> "8" [] n = 9 -> "9"

\* String(n) for a whole n >= 0
RECURSIVE StringDe(_)
StringDe(n) ==
  IF n < 10 THEN <<DigitoChar(n)>>
  ELSE Append(StringDe(n \div 10), DigitoChar(n % 10))

\* s.padStart(2, '0')
padStart2(s) == IF Len(s) < 2 THEN <<"0">> \o s ELSE s

\* mm:ss
formatarTempo(segundos) ==
  padStart2(StringDe(segundos \div 60)) \o <<":">>
    \o padStart2(StringDe(segundos % 60))

(* ------------------------------- inputs ------------------------------- *)

\* topic names typed into the form; they share the key "as"
Temas == {<<"A", "s">>, <<"á", "s">>}

\* the forms that can be submitted on the day dataRaw
Formularios(dataRaw) ==
  {[tema |-> <<"A", "s">>, dataRaw |-> dataRaw, confianca |-> Alta,
    ecoInicialRaw |-> <<"1", "/", "2">>, ecoFinalRaw |-> <<"4", "/", "5">>],
   [tema |-> <<"á", "s">>, dataRaw |-> dataRaw, confianca |-> Baixa,
    ecoInicialRaw |-> <<"1", "/", "5">>, ecoFinalRaw |-> <<"0", ",", "5">>]}

\* a document written before temaSlug existed
DocLegado ==
  [id |-> 1, ownerUid |-> Usuario, tema |-> <<"A", "s">>,
   ultimaRevisao |-> 0, revisaoTimestamp |-> 0,
   ecoInicial |-> 50, ecoFinal |-> 80,
   ecoInicialRaw |-> <<"1", "/", "2">>, ecoFinalRaw |-> <<"4", "/", "5">>,
   confianca |-> Alta, ciclos |-> 0, historico |-> <<>>]

StoresIniciais == {[d \in {} |-> DocLegado], [d \in {1} |-> DocLegado]}

Chaves == {normalizarTexto(t) : t \in Temas}

\* /^(\d+)([\/,])(\d+)$|^\d+$/
FormatoValido(s) ==
  /\ s # <<>>
  /\ \/ \A i \in 1..Len(s) : s[i] \in Digitos
     \/ \E j \in 2..(Len(s) - 1) :
          /\ s[j] \in {"/", ","}
          /\ \A i \in (1..Len(s)) \ {j} : s[i] \in Digitos

(* -------------------------------- state ------------------------------- *)

\* no function applied yet
SemSaida == [f |-> "-"]

ItemNeutro ==
  [ecoInicial |-> 0, ecoFinal |-> 0, ultimaRevisao |-> 0, confianca |-> <<>>]

\* the page just opened at midday of day 0, nobody signed in yet
InitApp ==
  /\ uid = Nulo
  /\ agora = 1
  /\ store \in StoresIniciais
  /\ objetos = <<>>
  /\ todosOsFragmentos = <<>>
  /\ fragmentosData = <<>>
  /\ emVoo = [p \in 1..MaxEmVoo |-> Livre]
  /\ nEnvios = 0
  /\ retorno = "-"
  /\ foco = <<>>
  /\ contagem = [k \in Chaves |-> IF ComChave(store, k) = {} THEN 0 ELSE 0 - 1]
  /\ pomodoroTempo = TempoInicial
  /\ pomodoroIntervalo = SemIntervalo
  /\ pomodoroAtivo = FALSE
  /\ intervalos = {}
  /\ proximoIntervalo = 1
  /\ timerDisplay = formatarTempo(TempoInicial)

Init ==
  /\ InitApp
  /\ item = ItemNeutro
  /\ hoje = 0
  /\ aura = "-"
  /\ entrada = <<>>
  /\ saida = SemSaida

(* -------------------------------- memory ------------------------------ *)

\* a reference no object has
NovoRef ==
  IF DOMAIN objetos = {} THEN 1
  ELSE 1 + (CHOOSE r \in DOMAIN objetos : \A q \in DOMAIN objetos : q <= r)

\* the objects an array refers to
Lista(arr) == [j \in 1..Len(arr) |-> objetos[arr[j]]]

\* arr.findIndex(f => f.id === id), 0 for -1
FindIndex(arr, id) ==
  LET achados == {j \in 1..Len(arr) : objetos[arr[j]].id = id}
  IN  IF achados = {} THEN 0 ELSE CHOOSE j \in achados : \A k \in achados : j <= k

Referidos(arr) == {arr[j] : j \in 1..Len(arr)}

(* ------------------------------ submission ---------------------------- *)

\* a faulty validation: the percentages are not held to 0..100
RejeitadoSemFaixa(form) ==
  \/ uid = Nulo
  \/ form.tema = <<>>
  \/ form.confianca = <<>>
  \/ ~(FormatoValido(form.ecoInicialRaw) /\ FormatoValido(form.ecoFinalRaw))

\* the validation of handleNovoFragmento: the form is turned down
Rejeitado(form) ==
  LET formatoValido ==
        FormatoValido(form.ecoInicialRaw) /\ FormatoValido(form.ecoFinalRaw)
      ecoInicial == converterParaPorcentagem(Str(form.ecoInicialRaw))
      ecoFinal == converterParaPorcentagem(Str(form.ecoFinalRaw))
  IN  \/ uid = Nulo
      \/ form.tema = <<>>
      \/ form.confianca = <<>>
      \/ ~formatoValido
      \/ ecoInicial = NaN \/ ecoFinal = NaN
      \/ ecoInicial.n < 0 \/ ecoInicial.n > 100
      \/ ecoFinal.n < 0 \/ ecoFinal.n > 100

\* handleNovoFragmento up to its await of salvarFragmentoNoFirestore, which
\* runs to its first getDocs; a rejected form returns false and changes
\* nothing; lim is the number of handlers allowed in flight
HandleNovoFragmento(form, lim) ==
  LET ecoInicial == converterParaPorcentagem(Str(form.ecoInicialRaw)).n
      ecoFinal == converterParaPorcentagem(Str(form.ecoFinalRaw)).n
      novoFragmento ==
        [id |-> IdLocal(nEnvios + 1),
         ownerUid |-> uid,
         tema |-> form.tema,
         ultimaRevisao |-> formatarDataRaw(form.dataRaw),
         revisaoTimestamp |-> agora,
         ecoInicial |-> ecoInicial,
         ecoFinal |-> ecoFinal,
         ecoInicialRaw |-> form.ecoInicialRaw,
         ecoFinalRaw |-> form.ecoFinalRaw,
         confianca |-> form.confianca,
         ciclos |-> 0,
         historico |-> <<>>]
  IN  /\ ~Rejeitado(form)
      /\ nEnvios < MaxEnvios
      /\ Cardinality(Ocupados) < lim
      /\ emVoo' = [emVoo EXCEPT ![PrimeiroLivre] =
                     [pc |-> "getDocsSlug", novo |-> novoFragmento]]
      /\ nEnvios' = nEnvios + 1
      /\ UNCHANGED <<varsFuncoes, uid, agora, store, memoria, retorno, foco, contagem>>

\* handleNovoFragmento on a form it turns down: an alert and return false;
\* entrada is the form and saida what the call returned
HandleNovoFragmentoRejeitado(form) ==
  /\ Rejeitado(form)
  /\ entrada' = form
  /\ saida' = [f |-> "handleNovoFragmento", v |-> FALSE]
  /\ UNCHANGED <<varsApp, varsAura>>

\* salvarFragmentoNoFirestore with the document found, up to its updateDoc
PedeUpdate(novo, d) ==
  [pc |-> "updateDoc", novo |-> novo, alvo |-> d,
   carga |-> CargaUpdate(novo, d, store[d], agora)]

\* snap.docs[0]: the document with the least id
Primeiro(S) == CHOOSE x \in S : \A y \in S : x <= y

\* a faulty search: the query by key is skipped
GetDocsSlugSemBusca(p) ==
  /\ emVoo[p].pc = "getDocsSlug"
  /\ emVoo' = [emVoo EXCEPT ![p] = [pc |-> "getDocsTema", novo |-> emVoo[p].novo]]
  /\ UNCHANGED <<varsFuncoes, uid, agora, store, memoria, nEnvios, retorno, foco,
                 contagem>>

\* getDocs(where temaSlug == slug) answers
GetDocsSlug(p) ==
  /\ emVoo[p].pc = "getDocsSlug"
  /\ LET novo == emVoo[p].novo
         achados == {d \in DOMAIN store :
                       /\ "temaSlug" \in DOMAIN store[d]
                       /\ store[d].temaSlug = normalizarTexto(novo.tema)}
     IN  emVoo' = [emVoo EXCEPT ![p] =
                     IF achados # {} THEN PedeUpdate(novo, Primeiro(achados))
                     ELSE [pc |-> "getDocsTema", novo |-> novo]]
  /\ UNCHANGED <<varsFuncoes, uid, agora, store, memoria, nEnvios, retorno, foco, contagem>>

\* getDocs(where tema == novo.tema) answers
GetDocsTema(p) ==
  /\ emVoo[p].pc = "getDocsTema"
  /\ LET novo == emVoo[p].novo
         achados == {d \in DOMAIN store :
                       /\ "tema" \in DOMAIN store[d]
                       /\ store[d].tema = novo.tema}
     IN  emVoo' = [emVoo EXCEPT ![p] =
                     IF achados # {} THEN PedeUpdate(novo, Primeiro(achados))
                     ELSE [pc |-> "addDoc", novo |-> novo,
                           carga |-> CargaAdd(novo, agora)]]
  /\ UNCHANGED <<varsFuncoes, uid, agora, store, memoria, nEnvios, retorno, foco, contagem>>

\* one more completed salvarFragmentoNoFirestore for the key, while it is counted
Contada(k) == [contagem EXCEPT ![k] = IF @ >= 0 THEN @ + 1 ELSE @]

\* the key is counted no longer
Descontada(k) == [contagem EXCEPT ![k] = 0 - 1]

\* handleNovoFragmento after salvarFragmentoNoFirestore returned, then the
\* submit handler up to carregarFragmentos' await of obterFragmentos
AposSalvar(p, novo) ==
  /\ objetos' = Put(objetos, NovoRef, ComAuraCalculada(novo, agora))
  /\ todosOsFragmentos' = Append(todosOsFragmentos, NovoRef)
  /\ fragmentosData' = Append(fragmentosData, NovoRef)
  /\ emVoo' = [emVoo EXCEPT ![p] = [pc |-> "obterFragmentos"]]
  /\ contagem' = Contada(normalizarTexto(novo.tema))

\* a storage call rejects: the handler ends in its catch, or uncaught
Falha(p) ==
  /\ emVoo' = [emVoo EXCEPT ![p] = Livre]
  /\ UNCHANGED <<varsFuncoes, uid, agora, store, memoria, nEnvios, retorno, foco, contagem>>

\* updateDoc of the document found takes effect, or fails for want of it
UpdateDoc(p) ==
  /\ emVoo[p].pc = "updateDoc"
  /\ IF emVoo[p].alvo \in DOMAIN store
     THEN /\ store' = Put(store, emVoo[p].alvo,
                          Merge(emVoo[p].carga, store[emVoo[p].alvo]))
          /\ AposSalvar(p, emVoo[p].novo)
          /\ UNCHANGED <<varsFuncoes, uid, agora, nEnvios, retorno, foco>>
     ELSE Falha(p)

\* addDoc takes effect, under a new id
AddDoc(p) ==
  /\ emVoo[p].pc = "addDoc"
  /\ store' = Put(store, IdDoc(emVoo[p].novo.id), emVoo[p].carga)
  /\ emVoo' = [emVoo EXCEPT ![p] =
                 [pc |-> "updateDocId", novo |-> emVoo[p].novo,
                  alvo |-> IdDoc(emVoo[p].novo.id)]]
  /\ UNCHANGED <<varsFuncoes, uid, agora, memoria, nEnvios, retorno, foco, contagem>>

\* updateDoc(docRef, {id}) takes effect, and novo.id becomes the document's
UpdateDocId(p) ==
  /\ emVoo[p].pc = "updateDocId"
  /\ IF emVoo[p].alvo \in DOMAIN store
     THEN /\ store' = Put(store, emVoo[p].alvo,
                          Merge([id |-> emVoo[p].alvo], store[emVoo[p].alvo]))
          /\ AposSalvar(p, [emVoo[p].novo EXCEPT !.id = emVoo[p].alvo])
          /\ UNCHANGED <<varsFuncoes, uid, agora, nEnvios, retorno, foco>>
     ELSE Falha(p)

\* carregarFragmentos after obterFragmentos answered
CarregarFragmentos(p) ==
  /\ emVoo[p].pc = "obterFragmentos"
  /\ LET data == obterFragmentos(store)
     IN  /\ objetos' = [i \in 1..Len(data) |-> ComAuraCalculada(data[i], agora)]
         /\ todosOsFragmentos' = [i \in 1..Len(data) |-> i]
         /\ fragmentosData' = [i \in 1..Len(data) |-> i]
  /\ emVoo' = [emVoo EXCEPT ![p] = Livre]
  /\ UNCHANGED <<varsFuncoes, uid, agora, store, nEnvios, retorno, foco, contagem>>

\* the auth listener with a signed-in user, up to carregarFragmentos' await
OnAuthStateChanged(lim) ==
  /\ uid = Nulo
  /\ Cardinality(Ocupados) < lim
  /\ uid' = Usuario
  /\ emVoo' = [emVoo EXCEPT ![PrimeiroLivre] = [pc |-> "obterFragmentos"]]
  /\ UNCHANGED <<varsFuncoes, agora, store, memoria, nEnvios, retorno, foco, contagem>>

(* ------------------------------- deletion ----------------------------- *)

\* the ids a click on the table can carry: those of the records listed, and
\* one of no record
IdsClicaveis == {objetos[r].id : r \in Referidos(fragmentosData)} \cup {0}

\* the cycle indexes a click can carry
IndicesClicaveis == (0 - 1)..MaxEnvios

\* the click on a cycle's delete button: excluirRevisaoDoCiclo up to its
\* updateDoc, after which it returns fragmentosData, or to its return of null;
\* retorno is what the call returns
ExcluirRevisaoDoCiclo(id, cicloIndex, ok, lim) ==
  /\ uid # Nulo
  /\ LET j == FindIndex(fragmentosData, id)
         fragmento == objetos[fragmentosData[j]]
     IN  IF \/ j = 0
            \/ "historico" \notin DOMAIN fragmento
            \/ cicloIndex < 0
            \/ cicloIndex >= Len(fragmento.historico)
            \/ ~ok
         THEN /\ retorno' = "null"
              /\ UNCHANGED <<varsFuncoes, uid, agora, store, memoria, emVoo, nEnvios, foco,
                             contagem>>
         ELSE LET historico == RemoveAt(fragmento.historico, cicloIndex + 1)
              IN  /\ Cardinality(Ocupados) < lim
                  /\ objetos' = [objetos EXCEPT ![fragmentosData[j]] =
                                   Merge([historico |-> historico,
                                          ciclos |-> Len(historico)], fragmento)]
                  /\ emVoo' = [emVoo EXCEPT ![PrimeiroLivre] =
                                 [pc |-> "updateDocCiclo", alvo |-> id,
                                  carga |-> [historico |-> historico,
                                             ciclos |-> Len(historico)]]]
                  /\ retorno' = "fragmentosData"
                  /\ UNCHANGED <<varsFuncoes, uid, agora, store, todosOsFragmentos,
                                 fragmentosData, nEnvios, foco, contagem>>

\* excluirRevisaoDoCiclo's updateDoc takes effect, or fails for want of the
\* document
UpdateDocCiclo(p) ==
  /\ emVoo[p].pc = "updateDocCiclo"
  /\ IF emVoo[p].alvo \in DOMAIN store
     THEN /\ store' = Put(store, emVoo[p].alvo,
                          Merge(emVoo[p].carga, store[emVoo[p].alvo]))
          /\ emVoo' = [emVoo EXCEPT ![p] = Livre]
          /\ contagem' = Descontada(ChaveDe(store[emVoo[p].alvo]))
          /\ UNCHANGED <<varsFuncoes, uid, agora, memoria, nEnvios, retorno, foco>>
     ELSE Falha(p)

(* --------------------------- deletion of a record --------------------- *)

\* a faulty removal: the array is left as it is
removeByIdNada(arr, id) == arr

\* removeById of the click handler: the first record with the id goes
removeById(arr, id) ==
  IF FindIndex(arr, id) > 0 THEN RemoveAt(arr, FindIndex(arr, id)) ELSE arr

\* the click on a record's delete button, up to the await of deleteDoc; ok is
\* the answer to the confirmation
ExcluirFragmento(id, ok, lim) ==
  /\ uid # Nulo
  /\ IF ~ok
     THEN UNCHANGED emVoo
     ELSE /\ Cardinality(Ocupados) < lim
          /\ emVoo' = [emVoo EXCEPT ![PrimeiroLivre] =
                         [pc |-> "deleteDoc", alvo |-> id]]
  /\ UNCHANGED <<varsFuncoes, uid, agora, store, memoria, nEnvios, retorno, foco,
                 contagem>>

\* deleteDoc takes effect, a document that is not there being no error, and
\* the handler removes the record from both arrays
DeleteDoc(p) ==
  /\ emVoo[p].pc = "deleteDoc"
  /\ store' = [d \in (DOMAIN store) \ {emVoo[p].alvo} |-> store[d]]
  /\ todosOsFragmentos' = removeById(todosOsFragmentos, emVoo[p].alvo)
  /\ fragmentosData' = removeById(fragmentosData, emVoo[p].alvo)
  /\ emVoo' = [emVoo EXCEPT ![p] = Livre]
  /\ contagem' = IF emVoo[p].alvo \in DOMAIN store
                 THEN Descontada(ChaveDe(store[emVoo[p].alvo]))
                 ELSE contagem
  /\ UNCHANGED <<varsFuncoes, uid, agora, objetos, nEnvios, retorno, foco>>

\* deleteDoc rejects: the handler ends in its catch
DeleteDocFalha(p) ==
  /\ emVoo[p].pc = "deleteDoc"
  /\ Falha(p)

(* ---------------------------- the Pomodoro timer ---------------------- *)

\* a faulty pause: the flag is lowered and the interval left running
IniciarOuPausarSemClear ==
  /\ IF pomodoroAtivo
     THEN /\ pomodoroAtivo' = FALSE
          /\ UNCHANGED <<pomodoroIntervalo, intervalos, proximoIntervalo>>
     ELSE /\ proximoIntervalo <= MaxIntervalos
          /\ pomodoroAtivo' = TRUE
          /\ pomodoroIntervalo' = proximoIntervalo
          /\ intervalos' = intervalos \cup {proximoIntervalo}
          /\ proximoIntervalo' = proximoIntervalo + 1
  /\ UNCHANGED <<pomodoroTempo, timerDisplay>>
  /\ UNCHANGED <<varsFragmentos, varsAura, entrada, saida>>

\* the click on the button: iniciarOuPausarPomodoro
IniciarOuPausarPomodoro ==
  /\ IF pomodoroAtivo
     THEN /\ intervalos' = intervalos \ {pomodoroIntervalo}
          /\ pomodoroAtivo' = FALSE
          /\ UNCHANGED <<pomodoroIntervalo, proximoIntervalo>>
     ELSE /\ proximoIntervalo <= MaxIntervalos
          /\ pomodoroAtivo' = TRUE
          /\ pomodoroIntervalo' = proximoIntervalo
          /\ intervalos' = intervalos \cup {proximoIntervalo}
          /\ proximoIntervalo' = proximoIntervalo + 1
  /\ UNCHANGED <<pomodoroTempo, timerDisplay>>
  /\ UNCHANGED <<varsFragmentos, varsAura, entrada, saida>>

\* a second goes by on the running interval i: the callback of setInterval
TickDoIntervalo(i) ==
  /\ i \in intervalos
  /\ IF pomodoroTempo > 0
     THEN /\ pomodoroTempo' = pomodoroTempo - 1
          /\ timerDisplay' = formatarTempo(pomodoroTempo')
          /\ UNCHANGED <<pomodoroAtivo, intervalos>>
     ELSE /\ intervalos' = intervalos \ {pomodoroIntervalo}
          /\ pomodoroAtivo' = FALSE
          /\ pomodoroTempo' = TempoInicial
          /\ timerDisplay' = formatarTempo(pomodoroTempo')
  /\ UNCHANGED <<pomodoroIntervalo, proximoIntervalo>>
  /\ UNCHANGED <<varsFragmentos, varsAura, entrada, saida>>

(* ------------------------------ environment --------------------------- *)

\* a week goes by, the page idle
AvancarTempo ==
  /\ agora + 7 * DIA <= MaxSemanas * 7 * DIA + 1
  /\ Ocupados = {}
  /\ agora' = agora + 7 * DIA
  /\ UNCHANGED <<varsFuncoes, uid, store, memoria, emVoo, nEnvios, retorno, foco, contagem>>

\* inicializarDashboard(..., fragmentosData, ...): the focus table's records
InicializarDashboard ==
  /\ LET lista == Lista(fragmentosData)
         escolhidos == selecionarFragmentosUrgentesOuRecentes(lista, LimiteFoco)
     IN  foco' = [k \in 1..Len(escolhidos) |-> lista[escolhidos[k]].id]
  /\ UNCHANGED <<varsFuncoes, uid, agora, store, memoria, emVoo, nEnvios, retorno, contagem>>

(* ---------------------------- specifications -------------------------- *)

\* handlers overlap: a click or a submission while another awaits storage
Next ==
  \/ OnAuthStateChanged(MaxEmVoo)
  \/ \E form \in Formularios(formatarDataRaw(agora)) :
       HandleNovoFragmento(form, MaxEmVoo)
  \/ \E p \in DOMAIN emVoo : GetDocsSlug(p)
  \/ \E p \in DOMAIN emVoo : GetDocsTema(p)
  \/ \E p \in DOMAIN emVoo : UpdateDoc(p)
  \/ \E p \in DOMAIN emVoo : AddDoc(p)
  \/ \E p \in DOMAIN emVoo : UpdateDocId(p)
  \/ \E p \in DOMAIN emVoo : CarregarFragmentos(p)
  \/ \E id \in IdsClicaveis, cicloIndex \in IndicesClicaveis, ok \in BOOLEAN :
       ExcluirRevisaoDoCiclo(id, cicloIndex, ok, MaxEmVoo)
  \/ \E p \in DOMAIN emVoo : UpdateDocCiclo(p)
  \/ AvancarTempo

Spec == Init /\ [][Next]_vars

\* handlers run one after the other, and the dashboard is drawn between them
NextSeq ==
  \/ OnAuthStateChanged(1)
  \/ \E form \in Formularios(formatarDataRaw(agora)) : HandleNovoFragmento(form, 1)
  \/ \E p \in DOMAIN emVoo : GetDocsSlug(p)
  \/ \E p \in DOMAIN emVoo : GetDocsTema(p)
  \/ \E p \in DOMAIN emVoo : UpdateDoc(p)
  \/ \E p \in DOMAIN emVoo : AddDoc(p)
  \/ \E p \in DOMAIN emVoo : UpdateDocId(p)
  \/ \E p \in DOMAIN emVoo : CarregarFragmentos(p)
  \/ \E id \in IdsClicaveis, cicloIndex \in IndicesClicaveis, ok \in BOOLEAN :
       ExcluirRevisaoDoCiclo(id, cicloIndex, ok, 1)
  \/ \E p \in DOMAIN emVoo : UpdateDocCiclo(p)
  \/ AvancarTempo
  \/ InicializarDashboard

SpecSeq == Init /\ [][NextSeq]_vars

(* ------------------------- forms that are turned down ----------------- *)

\* the forms submitted: the two of Formularios and one of them with a field
\* left empty, a result that is not in the format, or a percentage over 100
FormulariosRecusa(dataRaw) ==
  LET base == CHOOSE form \in Formularios(dataRaw) : form.confianca = Alta
  IN  Formularios(dataRaw) \cup
        {[base EXCEPT !.tema = <<>>],
         [base EXCEPT !.confianca = <<>>],
         [base EXCEPT !.ecoInicialRaw = <<>>],
         [base EXCEPT !.ecoInicialRaw = <<"x">>],
         [base EXCEPT !.ecoFinalRaw = <<"7", "/">>],
         [base EXCEPT !.ecoFinalRaw = <<"x", "7", "/", "1", "0">>],
         [base EXCEPT !.ecoInicialRaw = <<"7", "/", "5">>],
         [base EXCEPT !.ecoFinalRaw = <<"1", "5", "0">>]}

NextRecusa ==
  \/ OnAuthStateChanged(1)
  \/ \E form \in FormulariosRecusa(formatarDataRaw(agora)) :
       HandleNovoFragmento(form, 1)
  \/ \E form \in FormulariosRecusa(formatarDataRaw(agora)) :
       HandleNovoFragmentoRejeitado(form)
  \/ \E p \in DOMAIN emVoo : GetDocsSlug(p)
  \/ \E p \in DOMAIN emVoo : GetDocsTema(p)
  \/ \E p \in DOMAIN emVoo : UpdateDoc(p)
  \/ \E p \in DOMAIN emVoo : AddDoc(p)
  \/ \E p \in DOMAIN emVoo : UpdateDocId(p)
  \/ \E p \in DOMAIN emVoo : CarregarFragmentos(p)

SpecRecusa == Init /\ [][NextRecusa]_vars

(* --------------------------- records deleted -------------------------- *)

\* handlers run one after the other; records are submitted, reloaded and
\* deleted from the table
NextExclusao ==
  \/ OnAuthStateChanged(1)
  \/ \E form \in Formularios(formatarDataRaw(agora)) : HandleNovoFragmento(form, 1)
  \/ \E p \in DOMAIN emVoo : GetDocsSlug(p)
  \/ \E p \in DOMAIN emVoo : GetDocsTema(p)
  \/ \E p \in DOMAIN emVoo : UpdateDoc(p)
  \/ \E p \in DOMAIN emVoo : AddDoc(p)
  \/ \E p \in DOMAIN emVoo : UpdateDocId(p)
  \/ \E p \in DOMAIN emVoo : CarregarFragmentos(p)
  \/ \E id \in IdsClicaveis, ok \in BOOLEAN : ExcluirFragmento(id, ok, 1)
  \/ \E p \in DOMAIN emVoo : DeleteDoc(p)
  \/ \E p \in DOMAIN emVoo : DeleteDocFalha(p)

SpecExclusao == Init /\ [][NextExclusao]_vars

(* ------------------------- the Pomodoro timer on its own -------------- *)

NextPomodoro ==
  \/ IniciarOuPausarPomodoro
  \/ \E i \in intervalos : TickDoIntervalo(i)

SpecPomodoro == Init /\ [][NextPomodoro]_vars

(* ------------------------- calcularAura on its own -------------------- *)

Percentuais == 0..100
DiasAura == {0, 6, 7, 13, 14, 20, MaxDias}
Rotulos == {Baixa, Alta, Media, <<"B", "a", "i", "x", "o">>,
            <<"m", "é", "d", "i", "o">>, <<>>}

InitAura ==
  /\ InitApp
  /\ store = <<>>
  /\ item \in [ecoInicial : Percentuais, ecoFinal : Percentuais,
               ultimaRevisao : {0, DataVazia}, confianca : Rotulos]
  /\ hoje \in {d * DIA : d \in DiasAura}
  /\ aura = "-"
  /\ entrada = <<>>
  /\ saida = SemSaida

CalcularAura ==
  /\ aura = "-"
  /\ aura' = calcularAura(item, hoje)
  /\ UNCHANGED <<item, hoje, entrada, saida>>
  /\ UNCHANGED varsApp

NextAura == CalcularAura

SpecAura == InitAura /\ [][NextAura]_vars

(* ------------ selecionarFragmentosUrgentesOuRecentes on its own ------- *)

\* records in a list handed to the selection
MaxLista == 4
\* the largest limit handed to the selection
MaxLimite == 5

Auras == {"urgente", "instavel", "consolidada"}

\* a record as the selection reads it: its aura and its ultimaRevisao,
\* missing or on one of two days
FragmentosFoco == [aura : Auras, ultimaRevisao : {DataVazia, 0, DIA}]

ListasFoco == UNION {[1..n -> FragmentosFoco] : n \in 0..MaxLista}

InitFoco ==
  /\ InitApp
  /\ store = <<>>
  /\ item = ItemNeutro
  /\ hoje = 0
  /\ aura = "-"
  /\ entrada \in [lista : ListasFoco, limite : 0..MaxLimite]
  /\ saida = SemSaida

Selecionar ==
  /\ saida = SemSaida
  /\ saida' = [f |-> "selecionar",
               v |-> selecionarFragmentosUrgentesOuRecentes(entrada.lista,
                                                            entrada.limite)]
  /\ UNCHANGED <<varsAura, entrada>>
  /\ UNCHANGED varsApp

NextFoco == Selecionar

SpecFoco == InitFoco /\ [][NextFoco]_vars

(* ---------------------- the aggregates on their own -------------------- *)

\* records in a list handed to an aggregate
MaxAgregados == 2

\* the default of the parameter limite
LimitePadrao == 5

\* a snapshot as salvarFragmentoNoFirestore pushes it, the results as
\* percentages, and one that holds the raw strings the aggregates read
SnapshotNumerico ==
  [data |-> 0, ecoInicial |-> Num(40), ecoFinal |-> Num(60), confianca |-> Alta]
SnapshotRaw ==
  [data |-> 0, ecoInicial |-> Str(<<"2", "/", "5">>),
   ecoFinal |-> Str(<<"3", "/", "5">>), ecoFinalRaw |-> <<"3", "/", "5">>,
   confianca |-> Alta]

\* when a record was last revised: never, on day 0 (the form's date, or the
\* stored instant), or on day 1
Quandos ==
  {<<>>,
   [ultimaRevisao |-> 0, revisaoTimestamp |-> 1],
   [ultimaRevisao |-> 1, revisaoTimestamp |-> 1],
   [ultimaRevisao |-> DIA, revisaoTimestamp |-> DIA + 1]}

\* what a record holds: topic, tier and the two raw results, a fraction or
\* a plain percentage before, a fraction or nothing after
Conteudos ==
  {[tema |-> <<"A", "s">>, aura |-> "urgente",
    ecoInicialRaw |-> <<"3", "/", "1", "0">>, ecoFinalRaw |-> <<"7", ",", "1", "0">>],
   [tema |-> <<"A", "s">>, aura |-> "consolidada",
    ecoInicialRaw |-> <<"3", "/", "1", "0">>, ecoFinalRaw |-> <<>>],
   [tema |-> <<"á", "s">>, aura |-> "urgente",
    ecoInicialRaw |-> <<"8", "0">>, ecoFinalRaw |-> <<"7", ",", "1", "0">>],
   [tema |-> <<"á", "s">>, aura |-> "consolidada",
    ecoInicialRaw |-> <<"8", "0">>, ecoFinalRaw |-> <<>>]}

FragmentosAgregados ==
  {Merge(q, Merge(c, [historico |-> h])) :
     q \in Quandos, c \in Conteudos,
     h \in {<<>>, <<SnapshotNumerico>>, <<SnapshotRaw, SnapshotNumerico>>}}

\* the argument: null (or undefined), or an array of records
EntradasAgregados ==
  {[nula |-> TRUE, lista |-> <<>>]}
  \cup [nula : {FALSE},
        lista : UNION {[1..n -> FragmentosAgregados] : n \in 0..MaxAgregados}]

InitAgregados ==
  /\ InitApp
  /\ store = <<>>
  /\ item = ItemNeutro
  /\ hoje = 0
  /\ aura = "-"
  /\ entrada \in EntradasAgregados
  /\ saida = SemSaida

\* data.forEach on null raises a TypeError
CalcularTotalQuestoes ==
  /\ saida = SemSaida
  /\ saida' = IF entrada.nula
              THEN [f |-> "calcularTotalQuestoes", lanca |-> TRUE]
              ELSE [f |-> "calcularTotalQuestoes", lanca |-> FALSE,
                    v |-> calcularTotalQuestoes(entrada.lista)]
  /\ UNCHANGED <<varsAura, entrada>>
  /\ UNCHANGED varsApp

CalcularEcoDaPerformance ==
  /\ saida = SemSaida
  /\ saida' = IF entrada.nula
              THEN [f |-> "calcularEcoDaPerformance", lanca |-> TRUE]
              ELSE [f |-> "calcularEcoDaPerformance", lanca |-> FALSE,
                    v |-> calcularEcoDaPerformance(entrada.lista)]
  /\ UNCHANGED <<varsAura, entrada>>
  /\ UNCHANGED varsApp

ContarQuestoesPorData ==
  /\ saida = SemSaida
  /\ saida' = IF entrada.nula
              THEN [f |-> "contarQuestoesPorData", lanca |-> TRUE]
              ELSE [f |-> "contarQuestoesPorData", lanca |-> FALSE,
                    v |-> contarQuestoesPorData(entrada.lista)]
  /\ UNCHANGED <<varsAura, entrada>>
  /\ UNCHANGED varsApp

\* !fragmentos || fragmentos.length === 0 answers the dash
ObterUltimaEvocacao ==
  /\ saida = SemSaida
  /\ saida' = [f |-> "obterUltimaEvocacao", lanca |-> FALSE,
               v |-> IF entrada.nula THEN Travessao
                     ELSE obterUltimaEvocacao(entrada.lista)]
  /\ UNCHANGED <<varsAura, entrada>>
  /\ UNCHANGED varsApp

\* selecionarFragmentosUrgentesOuRecentes(lista): !Array.isArray(lista)
\* answers []
SelecionarPadrao ==
  /\ saida = SemSaida
  /\ saida' = [f |-> "selecionarFragmentosUrgentesOuRecentes", lanca |-> FALSE,
               v |-> IF entrada.nula THEN <<>>
                     ELSE selecionarFragmentosUrgentesOuRecentes(entrada.lista,
                                                                 LimitePadrao)]
  /\ UNCHANGED <<varsAura, entrada>>
  /\ UNCHANGED varsApp

NextAgregados ==
  \/ CalcularTotalQuestoes
  \/ CalcularEcoDaPerformance
  \/ ContarQuestoesPorData
  \/ ObterUltimaEvocacao
  \/ SelecionarPadrao

SpecAgregados == InitAgregados /\ [][NextAgregados]_vars

(* ---------------------- obterUltimaEvocacao on its own ----------------- *)

\* records in a list handed to obterUltimaEvocacao
MaxEvocacao == 3

\* a record as obterUltimaEvocacao reads it: with or without a name, with
\* or without the instant of its last revision
FragmentosEvocacao ==
  {Merge(q, [tema |-> t]) :
     q \in {<<>>, [revisaoTimestamp |-> 1], [revisaoTimestamp |-> DIA + 1],
            [revisaoTimestamp |-> 2 * DIA + 1]},
     t \in Temas \cup {<<>>}}

InitEvocacao ==
  /\ InitApp
  /\ store = <<>>
  /\ item = ItemNeutro
  /\ hoje = 0
  /\ aura = "-"
  /\ entrada \in [nula : {FALSE},
                   lista : UNION {[1..n -> FragmentosEvocacao] :
                                    n \in 0..MaxEvocacao}]
  /\ saida = SemSaida

NextEvocacao == ObterUltimaEvocacao

SpecEvocacao == InitEvocacao /\ [][NextEvocacao]_vars

(* ------------------- converterParaPorcentagem on its own --------------- *)

\* the runs of digits typed as hits and as totals
Numerais ==
  {<<"0">>, <<"1">>, <<"7">>, <<"1", "0">>, <<"2", "3">>, <<"4", "0">>,
   <<"9", "9">>}

\* the values handed to converterParaPorcentagem: every fraction of two
\* numerals, results typed in other ways, a number and a missing value
ValoresPorcentagem ==
  {Str(a \o <<sep>> \o b) : a \in Numerais, sep \in {"/", ","}, b \in Numerais}
    \cup {Str(a) : a \in Numerais}
    \cup {Str(<<>>), Str(<<" ">>), Str(<<"x">>), Str(<<" ", "7", " ">>),
          Str(<<"7", "/">>), Str(<<"/", "7">>), Str(<<"7", " ", "/", "1", "0">>),
          Str(<<"x", "7", "/", "1", "0">>), Str(<<"7", "/", "1", "0", "x">>),
          Str(<<"1", "/", "2", "/", "3">>), Num(70), Indefinido}

InitPorcentagem ==
  /\ InitApp
  /\ store = <<>>
  /\ item = ItemNeutro
  /\ hoje = 0
  /\ aura = "-"
  /\ entrada \in [valor : ValoresPorcentagem]
  /\ saida = SemSaida

ConverterParaPorcentagem ==
  /\ saida = SemSaida
  /\ saida' = [f |-> "converterParaPorcentagem",
               v |-> converterParaPorcentagem(entrada.valor)]
  /\ UNCHANGED <<varsApp, varsAura, entrada>>

NextPorcentagem == ConverterParaPorcentagem

SpecPorcentagem == InitPorcentagem /\ [][NextPorcentagem]_vars

(* ---------------------- calcularAura as time goes by ------------------ *)

\* the percentages of the records watched over time
PercentuaisTempo == {0, 30, 43, 49, 50, 53, 79, 80, 100}

\* a record revised on day 0, on day 3 (ahead of the clock at first), or
\* with no date, drawn with the tier it has at midnight of day 0
InitAuraTempo ==
  /\ InitApp
  /\ store = <<>>
  /\ item \in [ecoInicial : PercentuaisTempo, ecoFinal : PercentuaisTempo,
               ultimaRevisao : {0, 3 * DIA, DataVazia}, confianca : Rotulos]
  /\ hoje = 0
  /\ aura = calcularAura(item, hoje)
  /\ entrada = <<>>
  /\ saida = SemSaida

\* the record is drawn again dt ticks later: calcularAura with the new clock
CalcularAuraDepois(dt) ==
  /\ hoje + dt <= MaxDias * DIA
  /\ hoje' = hoje + dt
  /\ aura' = calcularAura(item, hoje')
  /\ UNCHANGED <<item, entrada, saida>>
  /\ UNCHANGED varsApp

NextAuraTempo == \E dt \in 1..(7 * DIA) : CalcularAuraDepois(dt)

SpecAuraTempo == InitAuraTempo /\ [][NextAuraTempo]_vars

(* ------------------------- the heatmap on its own --------------------- *)

\* the largest count handed to classePorQuestoes
MaxContagem == 100

\* the day the heatmap is drawn, far enough into the run for a window of
\* DiasHeatmap days
DiaDoHeatmap == 60

\* the local clock against UTC, in ticks: behind, equal, ahead
Fusos == {0 - 1, 0, 1}

\* the calendar day of the instant t on the local clock
DiaLocal(t, fuso) == ((t + fuso) \div DIA) * DIA

\* the records drawn: undated, dated today by the form (the local day),
\* dated now by the store (the UTC instant), dated on the first day of the
\* window or the day before it; with 5 + 8 or 10 + 10 questions
FragmentosHeatmap(now, fuso) ==
  {Merge(q, [ecoInicialRaw |-> r[1], ecoFinalRaw |-> r[2]]) :
     q \in {<<>>,
            [ultimaRevisao |-> DiaLocal(now, fuso)],
            [ultimaRevisao |-> now],
            [ultimaRevisao |-> DiaLocal(now, fuso) - (DiasHeatmap - 1) * DIA],
            [ultimaRevisao |-> DiaLocal(now, fuso) - DiasHeatmap * DIA]},
     r \in {<<<<"1", "/", "5">>, <<"2", "/", "8">>>>,
            <<<<"3", "/", "1", "0">>, <<"7", ",", "1", "0">>>>}}

EntradasHeatmap ==
  UNION {[f : {"gerarHeatmapSimples"}, now : {now}, fuso : {fuso},
          lista : UNION {[1..n -> FragmentosHeatmap(now, fuso)] :
                           n \in 0..MaxAgregados}] :
           now \in {DiaDoHeatmap * DIA, DiaDoHeatmap * DIA + 1}, fuso \in Fusos}

EntradasClasse == [f : {"classePorQuestoes"}, n : 0..MaxContagem]

InitHeatmap ==
  /\ InitApp
  /\ store = <<>>
  /\ item = ItemNeutro
  /\ hoje = 0
  /\ aura = "-"
  /\ entrada \in EntradasHeatmap \cup EntradasClasse
  /\ saida = SemSaida

ClassePorQuestoes ==
  /\ saida = SemSaida
  /\ entrada.f = "classePorQuestoes"
  /\ saida' = [f |-> "classePorQuestoes", v |-> classePorQuestoes(entrada.n)]
  /\ UNCHANGED <<varsAura, entrada>>
  /\ UNCHANGED varsApp

GerarHeatmapSimples ==
  /\ saida = SemSaida
  /\ entrada.f = "gerarHeatmapSimples"
  /\ saida' = [f |-> "gerarHeatmapSimples",
               v |-> gerarHeatmapSimples(entrada.lista, entrada.now, entrada.fuso)]
  /\ UNCHANGED <<varsAura, entrada>>
  /\ UNCHANGED varsApp

NextHeatmap ==
  \/ ClassePorQuestoes
  \/ GerarHeatmapSimples

SpecHeatmap == InitHeatmap /\ [][NextHeatmap]_vars

(* ===================== the review-cycle ledger ========================= *)

\* C1: after N >= 1 completed submissions, one after the other, to one
\* normalized key that had no record, the store holds exactly one record for
\* the key, with N - 1 snapshots in historico and ciclos = N - 1.
C1_HistoricoContaEnvios ==
  \A k \in Chaves :
    contagem[k] >= 1 =>
      /\ Cardinality(ComChave(store, k)) = 1
      /\ \A d \in ComChave(store, k) :
           /\ Len(store[d].historico) = contagem[k] - 1
           /\ store[d].ciclos = contagem[k] - 1

\* C1, its case: the key has had as many submissions as a run allows, the
\* display names differing
C1_TresEnvios ==
  \E k \in Chaves :
    /\ contagem[k] = MaxEnvios
    /\ \E d \in ComChave(store, k) :
         store[d].historico[1].confianca # store[d].confianca

\* C2: in every state each stored document and each in-memory record has
\* ciclos equal to the length of its historico.
C2_CiclosIgualHistorico ==
  /\ \A d \in DOMAIN store : store[d].ciclos = Len(store[d].historico)
  /\ \A r \in DOMAIN objetos : objetos[r].ciclos = Len(objetos[r].historico)

\* C2, its case: a record created and updated whose in-memory copy has had a
\* cycle deleted that the stored document still has
C2_MemoriaAdiantada ==
  \E r \in DOMAIN objetos, p \in DOMAIN emVoo :
    /\ emVoo[p].pc = "updateDocCiclo"
    /\ emVoo[p].alvo = objetos[r].id
    /\ objetos[r].id \in DOMAIN store
    /\ objetos[r].id # DocLegado.id
    /\ Len(objetos[r].historico) >= 1
    /\ Len(store[objetos[r].id].historico) > Len(objetos[r].historico)

\* C3: every change of a stored document's historico, under any interleaving
\* of submissions, cycle deletions and reloads, appends exactly one snapshot
\* at the end or removes exactly one snapshot, the others keeping their
\* content and order.
C3_UmSnapshotPorVez ==
  [][\A d \in (DOMAIN store) \cap (DOMAIN store') :
       LET antes == store[d].historico
           depois == store'[d].historico
       IN  \/ depois = antes
           \/ /\ Len(depois) = Len(antes) + 1
              /\ SubSeq(depois, 1, Len(antes)) = antes
           \/ \E i \in 1..Len(antes) : depois = RemoveAt(antes, i)]_vars

\* C4: the snapshot a matching submission appends holds the record's values
\* from before the update: its previous ultimaRevisao, its previous raw
\* result strings and its previous confidence label.
C4_SnapshotGuardaValoresAnteriores ==
  [][\A d \in (DOMAIN store) \cap (DOMAIN store') :
       Len(store'[d].historico) = Len(store[d].historico) + 1 =>
         LET ciclo == store'[d].historico[Len(store'[d].historico)]
         IN  /\ ciclo.data = store[d].ultimaRevisao
             /\ ciclo.ecoInicial = Str(store[d].ecoInicialRaw)
             /\ ciclo.ecoFinal = Str(store[d].ecoFinalRaw)
             /\ ciclo.confianca = store[d].confianca]_vars

\* the normalized key of a document's display name
ChaveDoTema(doc) == normalizarTexto(doc.tema)

SemChaveRepetida ==
  \A d, e \in DOMAIN store :
    ChaveDoTema(store[d]) = ChaveDoTema(store[e]) => d = e

TodosComSlug == \A d \in DOMAIN store : "temaSlug" \in DOMAIN store[d]

\* C5, as stated: after submissions made one after the other no two stored
\* records have the same normalized key, a legacy record without temaSlug
\* included.
C5_SemChaveRepetida == SemChaveRepetida

\* C5, amended: no two stored records have the same normalized key as long
\* as every stored record carries temaSlug; a record without it is matched
\* by its exact display name only.
C5_SemChaveRepetidaComSlug == TodosComSlug => SemChaveRepetida

\* C5, its case: a record submitted as "As" was updated by a submission of
\* "ás", and every record carries temaSlug
C5_AtualizadoPorOutroNome ==
  /\ TodosComSlug
  /\ \E d \in DOMAIN store :
       /\ store[d].tema = <<"á", "s">>
       /\ Len(store[d].historico) >= 1
       /\ store[d].historico[Len(store[d].historico)].confianca = Alta

\* the history of the record a click with this id finds, <<>> if it finds none
HistoricoDe(id) ==
  IF FindIndex(fragmentosData, id) = 0 THEN <<>>
  ELSE objetos[fragmentosData[FindIndex(fragmentosData, id)]].historico

\* a known id, an index within the history, and the confirmation given
PedidoValido(id, cicloIndex, ok) ==
  ok /\ 0 <= cicloIndex /\ cicloIndex < Len(HistoricoDe(id))

\* C6: excluirRevisaoDoCiclo removes exactly the snapshot at the index, the
\* later ones moving down and ciclos becoming the new length, in memory and
\* in the write it issues, when the index is within the history and the user
\* confirms; otherwise it returns null and memory, store and pending writes
\* stay as they were.
C6_ExcluiSoOIndice ==
  [][/\ \A id \in IdsClicaveis :
          \A cicloIndex \in 0..(Len(HistoricoDe(id)) - 1) :
            ExcluirRevisaoDoCiclo(id, cicloIndex, TRUE, MaxEmVoo) =>
              LET r == fragmentosData[FindIndex(fragmentosData, id)]
                  h == objetos[r].historico
              IN  /\ Len(objetos'[r].historico) = Len(h) - 1
                  /\ \A k \in 1..(Len(h) - 1) :
                       objetos'[r].historico[k] =
                         IF k <= cicloIndex THEN h[k] ELSE h[k + 1]
                  /\ objetos'[r].ciclos = Len(h) - 1
                  /\ retorno' = "fragmentosData"
                  /\ store' = store
                  /\ \E p \in DOMAIN emVoo :
                       /\ emVoo[p] = Livre
                       /\ emVoo'[p] =
                            [pc |-> "updateDocCiclo", alvo |-> id,
                             carga |-> [historico |-> objetos'[r].historico,
                                        ciclos |-> Len(h) - 1]]
     /\ \/ retorno' = "null" /\ UNCHANGED <<store, memoria, emVoo>>
        \/ \A id \in IdsClicaveis, cicloIndex \in IndicesClicaveis, ok \in BOOLEAN :
             ~PedidoValido(id, cicloIndex, ok) =>
               ~ExcluirRevisaoDoCiclo(id, cicloIndex, ok, MaxEmVoo)
     /\ \A p \in DOMAIN emVoo :
          UpdateDocCiclo(p) =>
            /\ store'[emVoo[p].alvo].historico = emVoo[p].carga.historico
            /\ store'[emVoo[p].alvo].ciclos = Len(emVoo[p].carga.historico)]_vars

\* C6, its case: a confirmed deletion within a history of two or more has
\* been made in memory and awaits storage
C6_ExclusaoPendente ==
  \E p \in DOMAIN emVoo :
    /\ emVoo[p].pc = "updateDocCiclo"
    /\ Len(emVoo[p].carga.historico) >= 1

(* ============================ the urgency tier ========================= *)

\* the score as stated: the weighted performance in exact arithmetic
PontosDeclarados(f, now) ==
  LET antes == pctNumber(f.ecoInicial)
      depois == pctNumber(f.ecoFinal)
      dias == (now - f.ultimaRevisao) \div DIA
      rotulo == toLowerCase(f.confianca)
  IN  (IF 7 * antes + 3 * depois < 500 THEN 3
       ELSE IF 7 * antes + 3 * depois < 800 THEN 2 ELSE 1)
      + (IF depois < antes THEN 1 ELSE 0)
      + (IF dias >= 14 THEN 3 ELSE IF dias >= 7 THEN 2 ELSE 1)
      + (IF rotulo = <<"b", "a", "i", "x", "o">> THEN 2
         ELSE IF rotulo = <<"m", "é", "d", "i", "o">> THEN 1 ELSE 0)

\* C7: for percentages in 0..100, any whole number of days and any label,
\* calcularAura returns the tier of the stated score: urgente from 7,
\* instavel from 4, consolidada below.
C7_AuraDaPontuacaoDeclarada ==
  (aura # "-" /\ item.ultimaRevisao # DataVazia) =>
    aura = (IF PontosDeclarados(item, hoje) >= 7 THEN "urgente"
            ELSE IF PontosDeclarados(item, hoje) >= 4 THEN "instavel"
            ELSE "consolidada")

\* C8: the record with 50% before, 80% after, the label "Baixa" and a last
\* revision 20 days ago is urgente, its confidence term being 2.
C8_BaixaVinteDiasUrgente ==
  (/\ item = [ecoInicial |-> 50, ecoFinal |-> 80, ultimaRevisao |-> 0,
              confianca |-> Baixa]
   /\ hoje = 20 * DIA
   /\ aura # "-") =>
    /\ pontosConfianca(item) = 2
    /\ aura = "urgente"

\* C9: when the focus set is built, the tier used for each record is
\* calcularAura of the record at that moment.
C9_FocoComAuraDoMomento ==
  [][InicializarDashboard =>
       \A j \in 1..Len(fragmentosData) :
         objetos[fragmentosData[j]].aura =
           calcularAura(objetos[fragmentosData[j]], agora)]_vars

\* C10: no stored document and no write on its way to storage has an aura
\* field.
C10_AuraNuncaGravada ==
  /\ \A d \in DOMAIN store : "aura" \notin DOMAIN store[d]
  /\ \A p \in DOMAIN emVoo :
       "carga" \in DOMAIN emVoo[p] => "aura" \notin DOMAIN emVoo[p].carga

\* C10, its case: a document created by a submission, updated by others and
\* with a cycle deleted, while the records in memory carry their tier
C10_CriadoAtualizadoExcluido ==
  /\ retorno = "fragmentosData"
  /\ Ocupados = {}
  /\ \E d \in DOMAIN store :
       /\ d # DocLegado.id
       /\ Len(store[d].historico) >= 1
  /\ \E r \in DOMAIN objetos : "aura" \in DOMAIN objetos[r]

(* ========================= the focus selection ========================= *)

\* the positions from i on of the records of lista whose aura is tier
RECURSIVE Posicoes(_, _, _)
Posicoes(lista, tier, i) ==
  IF i > Len(lista) THEN <<>>
  ELSE (IF lista[i].aura = tier THEN <<i>> ELSE <<>>) \o Posicoes(lista, tier, i + 1)

Menor(a, b) == IF a < b THEN a ELSE b

\* C11: for every list and every limit >= 0 the selection has at most limit
\* records, all of the list and none twice, and when at least limit records
\* are urgent it is exactly the first limit urgent records in list order
C11_NoMaximoLimiteSemRepeticao ==
  saida.f = "selecionar" =>
    LET r == saida.v
        urgentes == Posicoes(entrada.lista, "urgente", 1)
    IN  /\ Len(r) <= entrada.limite
        /\ \A k \in 1..Len(r) : r[k] \in 1..Len(entrada.lista)
        /\ \A i, j \in 1..Len(r) : i # j => r[i] # r[j]
        /\ Len(urgentes) >= entrada.limite
             => r = SubSeq(urgentes, 1, entrada.limite)

\* C11 witness: three urgent records behind one that is not, limit 2: the
\* first two urgent ones are selected
C11_UrgentesDeSobra ==
  /\ saida.f = "selecionar"
  /\ entrada.limite = 2
  /\ Len(entrada.lista) = 4
  /\ entrada.lista[1].aura = "consolidada"
  /\ \A i \in 2..4 : entrada.lista[i].aura = "urgente"
  /\ saida.v = <<2, 3>>

\* C12: with fewer than limit urgent records the selection is the urgent
\* records in list order, then the unstable ones in list order up to the
\* limit, then, if still short, records of neither tier, older last revision
\* first among those with a date, none left out that is older than one
\* taken; it has min(limit, |list|) records
C12_TresNiveisEmOrdem ==
  (saida.f = "selecionar"
     /\ Len(Posicoes(entrada.lista, "urgente", 1)) < entrada.limite) =>
    LET lista == entrada.lista
        r == saida.v
        urgentes == Posicoes(lista, "urgente", 1)
        instaveis == Posicoes(lista, "instavel", 1)
        n1 == Len(urgentes)
        n2 == Menor(entrada.limite - n1, Len(instaveis))
        datado(x) == lista[x].ultimaRevisao # DataVazia
        maisAntigo(x, y) ==
          datado(x) /\ datado(y) /\ lista[x].ultimaRevisao < lista[y].ultimaRevisao
        fora == (1..Len(lista)) \ {r[k] : k \in 1..Len(r)}
    IN  /\ Len(r) = Menor(entrada.limite, Len(lista))
        /\ SubSeq(r, 1, n1) = urgentes
        /\ SubSeq(r, n1 + 1, n1 + n2) = SubSeq(instaveis, 1, n2)
        /\ \A k \in (n1 + n2 + 1)..Len(r) :
             /\ lista[r[k]].aura \notin {"urgente", "instavel"}
             /\ \A l \in (k + 1)..Len(r) : ~maisAntigo(r[l], r[k])
             /\ \A x \in fora : ~maisAntigo(x, r[k])

\* C13: in the third step a record without a valid last-revision date comes
\* before every record with one: none with a date precedes it in the
\* selection, and it is not left out while one with a date is taken
C13_SemDataPrimeiro ==
  saida.f = "selecionar" =>
    LET lista == entrada.lista
        r == saida.v
        terceiro == {k \in 1..Len(r) :
                       lista[r[k]].aura \notin {"urgente", "instavel"}}
        fora == (1..Len(lista)) \ {r[k] : k \in 1..Len(r)}
    IN  \A k \in terceiro :
          lista[r[k]].ultimaRevisao # DataVazia =>
            /\ \A l \in terceiro :
                 l > k => lista[r[l]].ultimaRevisao # DataVazia
            /\ \A x \in fora : lista[x].ultimaRevisao # DataVazia

(* ============================ the aggregates ========================== *)

\* the denominator of a raw result string, 0 when it has no acertos/total
Denominador(raw) ==
  LET m == MatchFracao(raw) IN IF m = <<>> THEN 0 ELSE parseInt(m[2])

\* the raw string a snapshot holds in campo, the empty one when it holds none
RawDoSnapshot(ciclo, campo) ==
  IF campo \in DOMAIN ciclo /\ ciclo[campo].t = "str" THEN ciclo[campo].s ELSE <<>>

RECURSIVE SomaSeq(_)
SomaSeq(ns) == IF ns = <<>> THEN 0 ELSE ns[1] + SomaSeq(Tail(ns))

\* the denominators of the two raw strings of a record
QuestoesDoCiclo(f) ==
  Denominador(Campo(f, "ecoInicialRaw", <<>>))
  + Denominador(Campo(f, "ecoFinalRaw", <<>>))

\* C14: calcularTotalQuestoes is the sum, over the records, of the
\* denominators of the two raw strings of the record and of the two raw
\* strings of each snapshot of its history, a string without a fraction
\* counting 0
C14_TotalDeQuestoes ==
  (saida.f = "calcularTotalQuestoes" /\ ~saida.lanca) =>
    saida.v =
      SomaSeq([i \in 1..Len(entrada.lista) |->
        LET f == entrada.lista[i]
            h == f.historico
        IN  QuestoesDoCiclo(f)
            + SomaSeq([k \in 1..Len(h) |->
                Denominador(RawDoSnapshot(h[k], "ecoInicial"))
                + Denominador(RawDoSnapshot(h[k], "ecoFinal"))])])

\* C14 witness: one record, before 3/10 and after 7,10, with a snapshot of
\* before 2/5 and after 3/5 in its history: the total is 30
C14_TotalTrinta ==
  /\ saida.f = "calcularTotalQuestoes"
  /\ ~entrada.nula
  /\ Len(entrada.lista) = 1
  /\ entrada.lista[1].ecoInicialRaw = <<"3", "/", "1", "0">>
  /\ entrada.lista[1].ecoFinalRaw = <<"7", ",", "1", "0">>
  /\ entrada.lista[1].historico = <<SnapshotRaw, SnapshotNumerico>>
  /\ saida.v = 30

\* the integer nearest to 100 * acertos / total, halves up
PorCento(acertos, total) ==
  IF total = 0 THEN 0 ELSE (200 * acertos + total) \div (2 * total)

\* C15: calcularEcoDaPerformance pools the after-study result of every
\* record and of every snapshot: once a re-submission has put the first
\* snapshot into a record's history, the value for that record is the
\* rounded percentage of the previous and the new after-study results
\* taken together
C15_SnapshotContinuaNoPool ==
  [][\A d \in (DOMAIN store) \cap (DOMAIN store') :
       (Len(store[d].historico) = 0 /\ Len(store'[d].historico) = 1) =>
         LET antes == Fracao(Campo(store[d], "ecoFinalRaw", <<>>))
             agoraF == Fracao(Campo(store'[d], "ecoFinalRaw", <<>>))
         IN  calcularEcoDaPerformance(<<store'[d]>>)
               = PorCento(antes[1] + agoraF[1], antes[2] + agoraF[2])]_vars

(* ======================= aura without a date ========================== *)

\* C16: for a record whose ultimaRevisao is missing or cannot be parsed,
\* calcularAura answers, and its tier is the one of the performance term
\* plus 1 plus the confidence term
C16_SemDataContaUm ==
  (aura # "-" /\ item.ultimaRevisao = DataVazia) =>
    aura = classificar(pontosDesempenho(item) + 1 + pontosConfianca(item))

\* C16 witness: no date, 10% before and 10% after, confidence Baixa, twenty
\* days into the run: 3 + 1 + 2 points, instavel
C16_SemDataInstavel ==
  /\ item = [ecoInicial |-> 10, ecoFinal |-> 10, ultimaRevisao |-> DataVazia,
             confianca |-> Baixa]
  /\ hoje = 20 * DIA
  /\ aura = "instavel"

(* ======================== questions per day =========================== *)

\* the calendar day of an instant or of a date
DiaDe(t) == t - (t % DIA)

\* the positions of the records of lista that have a last-revision date
Datados(lista) ==
  {i \in 1..Len(lista) : Campo(lista[i], "ultimaRevisao", DataVazia) # DataVazia}

\* the questions of the current cycle of the records at the positions S
RECURSIVE SomaQuestoes(_, _)
SomaQuestoes(lista, S) ==
  IF S = {} THEN 0
  ELSE LET i == CHOOSE x \in S : TRUE
       IN  QuestoesDoCiclo(lista[i]) + SomaQuestoes(lista, S \ {i})

\* the sum of the values of the map m at the keys K
RECURSIVE SomaDoMapa(_, _)
SomaDoMapa(m, K) ==
  IF K = {} THEN 0
  ELSE LET k == CHOOSE x \in K : TRUE IN m[k] + SomaDoMapa(m, K \ {k})

\* C17: contarQuestoesPorData has one key for each calendar day on which
\* some record was last revised, its value the sum of the denominators of
\* the two raw strings of exactly the records last revised that day;
\* undated records and history snapshots add nothing, so the values add up
\* to the current-cycle questions of the dated records
C17_QuestoesPorDia ==
  (saida.f = "contarQuestoesPorData" /\ ~saida.lanca) =>
    LET lista == entrada.lista
        mapa == saida.v
    IN  /\ DOMAIN mapa = {DiaDe(lista[i].ultimaRevisao) : i \in Datados(lista)}
        /\ \A d \in DOMAIN mapa :
             mapa[d] = SomaQuestoes(lista, {i \in Datados(lista) :
                                             DiaDe(lista[i].ultimaRevisao) = d})
        /\ SomaDoMapa(mapa, DOMAIN mapa) = SomaQuestoes(lista, Datados(lista))

\* C17 witness: two records last revised on day 0, one dated by the form
\* and one by the stored instant, each with 10 + 10 questions and a history:
\* day 0 counts 40
C17_DoisNoMesmoDia ==
  /\ saida.f = "contarQuestoesPorData"
  /\ ~entrada.nula
  /\ Len(entrada.lista) = 2
  /\ entrada.lista[1].historico # <<>>
  /\ Campo(entrada.lista[1], "ultimaRevisao", DataVazia) = 0
  /\ Campo(entrada.lista[2], "ultimaRevisao", DataVazia) = 1
  /\ DOMAIN saida.v = {0}
  /\ saida.v[0] = 40

(* ===================== no records, or no list ========================= *)

\* the value saida holds is the identity of the aggregate f
Identidade(f, v) ==
  CASE f = "calcularTotalQuestoes" -> v = 0
    [] f = "calcularEcoDaPerformance" -> v = 0
    [] f = "contarQuestoesPorData" -> DOMAIN v = {}
    [] f = "obterUltimaEvocacao" -> v = Travessao
    [] f = "selecionarFragmentosUrgentesOuRecentes" -> v = <<>>

\* C20: given no list (null or undefined) or an empty one, every aggregate
\* returns its identity value and raises no error
C20_SemListaDaIdentidade ==
  (saida.f # "-" /\ (entrada.nula \/ entrada.lista = <<>>)) =>
    /\ ~saida.lanca
    /\ Identidade(saida.f, saida.v)

(* ============================== the heatmap =========================== *)

\* the questions of the records of lista last revised on the day d
VolumeDoDia(lista, d) ==
  SomaQuestoes(lista, {i \in Datados(lista) : DiaDe(lista[i].ultimaRevisao) = d})

\* C18: gerarHeatmapSimples makes exactly 60 cells, one for each of the 60
\* consecutive calendar days that end today, none missing and none twice;
\* the count of a cell is the question volume of its day, and exactly one
\* cell, the one of today, is marked as today
C18_SessentaDiasAteHoje ==
  saida.f = "gerarHeatmapSimples" =>
    LET celulas == saida.v
        hojeLocal == DiaLocal(entrada.now, entrada.fuso)
    IN  /\ Len(celulas) = 60
        /\ {celulas[k].dataISO : k \in 1..Len(celulas)}
             = {hojeLocal - j * DIA : j \in 0..59}
        /\ \A k, l \in 1..Len(celulas) :
             k # l => celulas[k].dataISO # celulas[l].dataISO
        /\ \A k \in 1..Len(celulas) :
             /\ celulas[k].qtd = VolumeDoDia(entrada.lista, celulas[k].dataISO)
             /\ celulas[k].ehHoje <=> celulas[k].dataISO = hojeLocal
        /\ Cardinality({k \in 1..Len(celulas) : celulas[k].ehHoje}) = 1

\* C19: classePorQuestoes gives class 0 exactly for the count 0, class 1
\* for 1..19, class 2 for 20..49, class 3 for 50..79 and class 4 from 80;
\* and with one record last revised today, of 5 and 8 questions, the cell
\* marked as today has the count 13 and class 1
C19_ClassePorContagem ==
  /\ saida.f = "classePorQuestoes" =>
       LET n == entrada.n
           classe == saida.v
       IN  /\ classe = "questoes-0" <=> n = 0
           /\ classe = "questoes-1" <=> (1 <= n /\ n <= 19)
           /\ classe = "questoes-2" <=> (20 <= n /\ n <= 49)
           /\ classe = "questoes-3" <=> (50 <= n /\ n <= 79)
           /\ classe = "questoes-4" <=> n >= 80
  /\ (/\ saida.f = "gerarHeatmapSimples"
      /\ Len(entrada.lista) = 1
      /\ entrada.lista[1].ecoInicialRaw = <<"1", "/", "5">>
      /\ entrada.lista[1].ecoFinalRaw = <<"2", "/", "8">>
      /\ Campo(entrada.lista[1], "ultimaRevisao", DataVazia)
           \in {DiaLocal(entrada.now, entrada.fuso), entrada.now}) =>
       /\ \E k \in 1..Len(saida.v) : saida.v[k].ehHoje
       /\ \A k \in 1..Len(saida.v) :
            saida.v[k].ehHoje =>
              (saida.v[k].qtd = 13 /\ saida.v[k].classe = "questoes-1")

(* ========================= the last topic revised ===================== *)

\* the positions of the records of lista that have a last-revision instant
ComInstante(lista) ==
  {i \in 1..Len(lista) : "revisaoTimestamp" \in DOMAIN lista[i]}

\* the positions of those whose instant is the greatest
MaisRecentes(lista) ==
  {i \in ComInstante(lista) :
     \A j \in ComInstante(lista) :
       lista[j].revisaoTimestamp <= lista[i].revisaoTimestamp}

FormaFracao(s) ==
  \E j \in 2..(Len(s) - 1) :
    /\ s[j] \in {"/", ","}
    /\ \A i \in (1..Len(s)) \ {j} : s[i] \in Digitos

\* where the separator of such a string is
PosSeparador(s) == CHOOSE j \in 1..Len(s) : s[j] \in {"/", ","}

\* the integer nearest to 100 * a / b, halves up
InteiroMaisProximo(a, b) == (200 * a + b) \div (2 * b)

\* C22 as stated: for a string a/b or a,b converterParaPorcentagem returns 0
\* when b = 0 and otherwise the integer nearest to 100 * a / b, halves
\* rounded up; for a string that is neither such a fraction nor numeric it
\* returns not-a-number
C22_PorcentagemDaFracao ==
  (saida.f = "converterParaPorcentagem" /\ entrada.valor.t = "str") =>
    LET s == entrada.valor.s
    IN  IF FormaFracao(s)
        THEN LET a == parseInt(SubSeq(s, 1, PosSeparador(s) - 1))
                 b == parseInt(SubSeq(s, PosSeparador(s) + 1, Len(s)))
             IN  saida.v = (IF b = 0 THEN Num(0)
                            ELSE Num(InteiroMaisProximo(a, b)))
        ELSE Number(Str(s)) = NaN => saida.v = NaN

(* ================== questions of the cycles gone by =================== *)

\* the questions a submission declares: the denominators of its two results
QuestoesDoEnvio(novo) ==
  extrairTotalQuestoes(Str(novo.ecoInicialRaw))
    + extrairTotalQuestoes(Str(novo.ecoFinalRaw))

\* C23 as stated, for k = 2: when a topic submitted once is submitted again,
\* calcularTotalQuestoes over the records reloaded from storage is what it
\* was before plus the denominators of the two results just submitted, the
\* questions of the first cycle, now a history snapshot, still counted
C23_CiclosAnterioresContados ==
  [][\A p \in DOMAIN emVoo :
       (/\ emVoo[p].pc = "updateDoc"
        /\ emVoo'[p].pc = "obterFragmentos"
        /\ contagem[normalizarTexto(emVoo[p].novo.tema)] = 1) =>
         calcularTotalQuestoes(obterFragmentos(store'))
           = calcularTotalQuestoes(obterFragmentos(store))
               + QuestoesDoEnvio(emVoo[p].novo)]_vars

(* ====================== memory as a mirror of storage ================= *)

\* the ids of the records an array lists
IdsDe(arr) == {objetos[arr[j]].id : j \in 1..Len(arr)}

\* C24 as stated: at the moment handleNovoFragmento returns true, the step
\* that pushes the submitted record, the ids of the records in
\* todosOsFragmentos are the ids of the documents in storage
C24_MemoriaEspelhaStorage ==
  [][\A p \in DOMAIN emVoo :
       (/\ emVoo[p].pc \in {"updateDoc", "updateDocId"}
        /\ emVoo'[p].pc = "obterFragmentos") =>
         IdsDe(todosOsFragmentos)' = DOMAIN store']_vars

(* ======================= submissions that overlap ===================== *)

\* no call of salvarFragmentoNoFirestore is under way
NinguemSalvando ==
  \A p \in DOMAIN emVoo :
    emVoo[p].pc \notin {"getDocsSlug", "getDocsTema", "updateDoc", "addDoc",
                        "updateDocId"}

\* C25 as stated: whatever the overlap of the submissions to a key that had
\* no record, once they have all completed the store holds exactly one
\* record for the key, its history one snapshot longer for every submission
\* after the first and ciclos equal to its length
C25_EnviosSobrepostos ==
  NinguemSalvando =>
    \A k \in Chaves :
      contagem[k] >= 1 =>
        /\ Cardinality(ComChave(store, k)) = 1
        /\ \A d \in ComChave(store, k) :
             /\ Len(store[d].historico) + 1 = contagem[k]
             /\ store[d].ciclos = Len(store[d].historico)

(* ========================= forms turned down ========================== *)

\* the percentage a result string stands for: its value, or the integer
\* nearest to 100 * a / b
PercentualDeclarado(raw) ==
  IF FormaFracao(raw)
  THEN LET a == parseInt(SubSeq(raw, 1, PosSeparador(raw) - 1))
           b == parseInt(SubSeq(raw, PosSeparador(raw) + 1, Len(raw)))
       IN  IF b = 0 THEN 0 ELSE InteiroMaisProximo(a, b)
  ELSE parseInt(raw)

\* raw is digits, or digits, one of / and , and digits
ResultadoNoFormato(raw) ==
  \/ raw # <<>> /\ \A i \in 1..Len(raw) : raw[i] \in Digitos
  \/ FormaFracao(raw)

\* the reasons for which a submission is to be turned down
DeveSerRecusado(form) ==
  \/ uid = Nulo
  \/ form.tema = <<>>
  \/ form.confianca = <<>>
  \/ ~ResultadoNoFormato(form.ecoInicialRaw)
  \/ ~ResultadoNoFormato(form.ecoFinalRaw)
  \/ PercentualDeclarado(form.ecoInicialRaw) \notin 0..100
  \/ PercentualDeclarado(form.ecoFinalRaw) \notin 0..100

\* C26: a submission with no signed-in user, an empty topic, an empty
\* confidence, a result that is neither digits nor digits[/,]digits or a
\* percentage outside 0..100 is never accepted; the call that turns a form
\* down does so for one of these reasons, returns false, writes nothing to
\* storage and leaves todosOsFragmentos and fragmentosData as they were
C26_RecusaSemEfeito ==
  [][\A form \in FormulariosRecusa(formatarDataRaw(agora)) :
       /\ DeveSerRecusado(form) => ~HandleNovoFragmento(form, 1)
       /\ HandleNovoFragmentoRejeitado(form) =>
            /\ DeveSerRecusado(form)
            /\ saida'.v = FALSE
            /\ store' = store
            /\ emVoo' = emVoo
            /\ Lista(todosOsFragmentos)' = Lista(todosOsFragmentos)
            /\ Lista(fragmentosData)' = Lista(fragmentosData)]_vars

\* C26 witness: with a user signed in and a record stored and listed, a form
\* whose first result is 7/5, 140 per cent, was turned down
C26_CentoEQuarentaRecusado ==
  /\ uid # Nulo
  /\ store # <<>>
  /\ Len(todosOsFragmentos) >= 1
  /\ saida.f = "handleNovoFragmento"
  /\ saida.v = FALSE
  /\ entrada.ecoInicialRaw = <<"7", "/", "5">>

(* ========================== records deleted =========================== *)

\* the two arrays list the same records as before
ArraysIguais ==
  /\ Lista(todosOsFragmentos)' = Lista(todosOsFragmentos)
  /\ Lista(fragmentosData)' = Lista(fragmentosData)

\* C27: the click on a record's delete button, confirmed or declined, leaves
\* both arrays as they were, and so does a storage delete that fails; the
\* storage delete that succeeds leaves no document and, in either array, no
\* record with the id; and a record leaves todosOsFragmentos on no other
\* step than that one or a reload
C27_ExclusaoDepoisDoStorage ==
  [][/\ \A id \in IdsClicaveis, ok \in BOOLEAN :
          ExcluirFragmento(id, ok, 1) => ArraysIguais /\ store' = store
     /\ \A p \in DOMAIN emVoo :
          /\ DeleteDocFalha(p) => ArraysIguais /\ store' = store
          /\ DeleteDoc(p) =>
               /\ emVoo[p].alvo \notin DOMAIN store'
               /\ emVoo[p].alvo \notin IdsDe(todosOsFragmentos)'
               /\ emVoo[p].alvo \notin IdsDe(fragmentosData)'
               /\ IdsDe(todosOsFragmentos)' =
                    IdsDe(todosOsFragmentos) \ {emVoo[p].alvo}
     /\ IdsDe(todosOsFragmentos) \ IdsDe(todosOsFragmentos)' # {} =>
          \E p \in DOMAIN emVoo : DeleteDoc(p) \/ CarregarFragmentos(p)]_vars

\* C27 witness: a record submitted, stored and listed has been deleted:
\* storage and both arrays are empty again and nothing is under way
C27_SubmetidoEExcluido ==
  /\ uid # Nulo
  /\ nEnvios >= 1
  /\ store = <<>>
  /\ todosOsFragmentos = <<>>
  /\ fragmentosData = <<>>
  /\ Ocupados = {}
  /\ \E k \in Chaves : contagem[k] < 0

(* ======================== the tier as time goes by ==================== *)

\* consolidada < instavel < urgente
OrdemDaAura(a) ==
  CASE a = "consolidada" -> 0 [] a = "instavel" -> 1 [] a = "urgente" -> 2

\* revised, and fewer than seven days before the clock
RevisadoHaMenosDeSete ==
  /\ item.ultimaRevisao # DataVazia
  /\ item.ultimaRevisao <= hoje
  /\ hoje - item.ultimaRevisao < 7 * DIA

\* C28: for a record whose fields do not change the tier calcularAura
\* returns never becomes less urgent as the clock advances, and a record
\* revised fewer than 7 days ago whose confidence is not "baixo" is never
\* urgente
C28_AuraNaoRecua ==
  /\ [][OrdemDaAura(aura) <= OrdemDaAura(aura')]_vars
  /\ []((RevisadoHaMenosDeSete
          /\ toLowerCase(item.confianca) # <<"b", "a", "i", "x", "o">>)
         => aura # "urgente")

\* C28 witness: a record of "médio" confidence revised on day 0, unstable
\* then, is urgent two weeks later
C28_InstavelFicaUrgente ==
  /\ item.ultimaRevisao = 0
  /\ item.confianca = <<"m", "é", "d", "i", "o">>
  /\ calcularAura(item, 0) = "instavel"
  /\ hoje = 14 * DIA
  /\ aura = "urgente"

(* ======================= the order of the cells ======================= *)

\* C29 as stated: in the sequence of cells gerarHeatmapSimples renders the
\* most recent days come last: the last cell is the one of today, no cell is
\* of a later day, and the first cell is of the day 59 days before it
C29_HojePorUltimo ==
  saida.f = "gerarHeatmapSimples" =>
    LET celulas == saida.v
        ultima == celulas[Len(celulas)]
    IN  /\ ultima.ehHoje
        /\ \A k \in 1..Len(celulas) : celulas[k].dataISO <= ultima.dataISO
        /\ celulas[1].dataISO = ultima.dataISO - (DiasHeatmap - 1) * DIA

(* ========================== the Pomodoro timer ======================== *)

\* C30: under any sequence of clicks and ticks the remaining time stays
\* within 0..1500 seconds; at most one interval is running, and one is
\* exactly when pomodoroAtivo is true, the one pomodoroIntervalo names; the
\* remaining time changes only on a tick while active, a click keeping it;
\* and the tick that finds 0 remaining stops the interval, lowers
\* pomodoroAtivo and sets the remaining time to 1500
C30_PomodoroBemComportado ==
  /\ [](/\ pomodoroTempo \in 0..1500
        /\ Cardinality(intervalos) <= 1
        /\ pomodoroAtivo <=> intervalos # {}
        /\ pomodoroAtivo => intervalos = {pomodoroIntervalo})
  /\ [][/\ pomodoroTempo' # pomodoroTempo =>
             /\ pomodoroAtivo
             /\ \E i \in intervalos : TickDoIntervalo(i)
        /\ IniciarOuPausarPomodoro =>
             /\ pomodoroTempo' = pomodoroTempo
             /\ pomodoroAtivo' = ~pomodoroAtivo
        /\ \A i \in intervalos :
             TickDoIntervalo(i) =>
               IF pomodoroTempo = 0
               THEN /\ pomodoroTempo' = 1500
                    /\ ~pomodoroAtivo'
                    /\ intervalos' = {}
               ELSE /\ pomodoroTempo' = pomodoroTempo - 1
                    /\ pomodoroAtivo']_vars

\* C30 witness: the timer was started, paused and started again, and has
\* run down to 0, the display at 00:00, the tick that ends the cycle next
C30_ZeroDepoisDePausa ==
  /\ pomodoroAtivo
  /\ pomodoroTempo = 0
  /\ pomodoroIntervalo >= 2
  /\ timerDisplay = <<"0", "0", ":", "0", "0">>

====
